---- MODULE Spec2Model ----
\* Model of cli_root_yo's CommandRegistry (src/cli_root_yo/registry.py):
\* the node tree, the freeze lifecycle, order assignment, group-path
\* resolution and materialization order; of the plugin loader
\* (src/cli_root_yo/plugins.py) and of create_app / run
\* (src/cli_root_yo/app.py).
\*
\* Strings that the code inspects character by character (names, group
\* paths) are sequences of one-character strings; help texts, callbacks and
\* sub-app handles are opaque and are plain strings.
EXTENDS Integers, Sequences, FiniteSets, TLC

VARIABLES
    roots,      \* keys of CommandRegistry._roots, in dict insertion order
    nodes,      \* every _Node of the tree, keyed by its path from the root
    frozen,     \* CommandRegistry._frozen
    counter,    \* CommandRegistry._counter
    reserved,   \* CommandRegistry._reserved
    calls,      \* number of registration calls made so far
    last,       \* the last public call: its arguments and its outcome
    visited,    \* paths handed to _apply_node by the last apply(), in order
    spec,       \* the CliSpec handed to load_plugins / run
    argv,       \* the argument list handed to run
    pc,         \* position of the loader / of run; "api" when neither runs
    idx,        \* number of plugins of the spec's lists dealt with so far
    invoked,    \* plugin callables invoked so far, with what they were given
    printed,    \* lines written by output.error
    raised,     \* the exception in flight, NoExc when there is none
    context,    \* runtime._context: None or the established RuntimeContext
    result,     \* what run returned: None while it has not returned
    files,      \* the config file and its backups: what each holds
    clock       \* the clock read by datetime.now(), in seconds

runVars == <<spec, argv, pc, idx, invoked, printed, raised, context, result, files, clock>>

vars == <<roots, nodes, frozen, counter, reserved, calls, last, visited,
          spec, argv, pc, idx, invoked, printed, raised, context, result, files, clock>>

\* No config file and no backup; the clock at its start.
NoFiles == [config |-> "absent", backups |-> {}]

FsIdle == files = NoFiles /\ clock = 0

\* ---------------------------------------------------------------- bounds

\* Registration calls (add_group, add_command, add_typer_app) in one run.
MaxCalls == 2

\* Registration calls in runs that omit every explicit order.
MaxAutoCalls == 3

\* Registration calls in runs that probe names, reservations and paths.
MaxNameCalls == 2

\* Length of spec.plugins.explicit and of spec.plugins.entry_points.
MaxPlugins == 2

\* Length of the plugin lists of a spec handed to run.
MaxRunPlugins == 1

\* runtime and output calls per behaviour
MaxRuntimeCalls == 3

\* config commands, edits of the config file and clock ticks per behaviour
MaxConfigCalls == 4

\* ------------------------------------------------------- text helpers

Lower == {"a", "b", "c", "d", "e", "f", "g", "h", "i", "j", "k", "l", "m",
          "n", "o", "p", "q", "r", "s", "t", "u", "v", "w", "x", "y", "z"}

Digit == {"0", "1", "2", "3", "4", "5", "6", "7", "8", "9"}

\* An optional argument: <<>> is Python's None, <<v>> is the value v.
None == <<>>

Some(v) == <<v>>

Has(seq, x) == \E i \in 1..Len(seq) : seq[i] = x

IndexOf(seq, x) == CHOOSE i \in 1..Len(seq) : seq[i] = x

\* re.compile(r"^[a-z][a-z0-9-]*$").match(s): `$` also matches just before
\* a newline that ends the string.
NAME_RE_match(s) ==
    LET body == IF Len(s) > 0 /\ s[Len(s)] = "\n" THEN SubSeq(s, 1, Len(s) - 1) ELSE s
    IN  /\ Len(body) >= 1
        /\ body[1] \in Lower
        /\ \A i \in 2..Len(body) : body[i] \in Lower \cup Digit \cup {"-"}

\* s.split(sep) for a one-character separator.
RECURSIVE SplitFrom(_, _, _, _)
SplitFrom(s, sep, i, cur) ==
    IF i > Len(s) THEN <<cur>>
    ELSE IF s[i] = sep THEN <<cur>> \o SplitFrom(s, sep, i + 1, <<>>)
    ELSE SplitFrom(s, sep, i + 1, Append(cur, s[i]))

split(s, sep) == SplitFrom(s, sep, 1, <<>>)

\* sep.join(parts)
RECURSIVE join(_, _)
join(sep, parts) ==
    IF Len(parts) = 0 THEN <<>>
    ELSE IF Len(parts) = 1 THEN parts[1]
    ELSE parts[1] \o <<sep>> \o join(sep, Tail(parts))

\* ------------------------------------------------------------ exceptions

NoExc == [type |-> "none", path |-> <<>>, detail |-> <<>>]

RegistryFrozenError == [type |-> "RegistryFrozenError", path |-> <<>>, detail |-> <<>>]

ValueError == [type |-> "ValueError", path |-> <<>>, detail |-> <<>>]

RegistryConflictError(path, detail) ==
    [type |-> "RegistryConflictError", path |-> path, detail |-> detail]

KindLower(kind) ==
    CASE kind = "GROUP" -> "group"
      [] kind = "COMMAND" -> "command"
      [] kind = "TYPER_APP" -> "typer_app"

\* --------------------------------------------------------------- registry

ALWAYS_RESERVED == {<<"v", "e", "r", "s", "i", "o", "n">>, <<"i", "n", "f", "o">>}

\* The registry as one value, for the operators below.
Reg == [roots |-> roots, nodes |-> nodes, frozen |-> frozen, counter |-> counter,
        reserved |-> reserved, calls |-> calls]

\* CommandRegistry(reserved_names=names)
NewRegistry(names) ==
    [roots |-> <<>>, nodes |-> <<>>, frozen |-> FALSE, counter |-> 0,
     reserved |-> ALWAYS_RESERVED \cup names, calls |-> 0]

Node(kind, name, help_text, order, callback, typer_app, born) ==
    [kind |-> kind, name |-> name, help_text |-> help_text, order |-> order,
     callback |-> callback, typer_app |-> typer_app, children |-> <<>>,
     born |-> born]

\* Keys of the dict at `parent`: self._roots for <<>>, else node.children.
Keys(r, parent) == IF parent = <<>> THEN r.roots ELSE r.nodes[parent].children

\* current_dict[name] = node
DictSet(r, parent, name, node) ==
    LET path == Append(parent, name)
        withNode == (path :> node) @@ r.nodes
    IN  IF parent = <<>>
        THEN [r EXCEPT !.roots = Append(@, name), !.nodes = withNode]
        ELSE [r EXCEPT !.nodes =
                 [withNode EXCEPT ![parent].children = Append(@, name)]]

\* Mutant: the frozen flag is never consulted.
check_frozen_skipped(r) == NoExc

check_frozen(r) == IF r.frozen THEN RegistryFrozenError ELSE NoExc

\* Mutant: the reserved set is not consulted.
validate_name_syntax_only(r, name) ==
    IF ~NAME_RE_match(name) THEN ValueError ELSE NoExc

validate_name(r, name) ==
    IF ~NAME_RE_match(name) THEN ValueError
    ELSE IF name \in r.reserved
    THEN RegistryConflictError(name, <<"is a reserved name">>)
    ELSE NoExc

\* Mutant: the counter value is handed out negated.
next_order_desc(r, explicit) ==
    IF explicit # None THEN [reg |-> r, val |-> explicit[1]]
    ELSE [reg |-> [r EXCEPT !.counter = @ + 1], val |-> 0 - (r.counter + 1)]

\* Returns the registry after the call and the order value.
next_order(r, explicit) ==
    IF explicit # None THEN [reg |-> r, val |-> explicit[1]]
    ELSE [reg |-> [r EXCEPT !.counter = @ + 1], val |-> r.counter + 1]

\* Mutant: the whole group path is reported.
SegmentConflict_whole(parts, i, kind) ==
    RegistryConflictError(join("/", parts),
                          <<"expected group but found", KindLower(kind)>>)

\* The error raised at segment i (counted from 1) of parts, a node of `kind`.
SegmentConflict(parts, i, kind) ==
    RegistryConflictError(join("/", SubSeq(parts, 1, i)),
                          <<"expected group but found", KindLower(kind)>>)

\* The loop of _resolve_parent from segment i on; cur is the path of the
\* node whose children are current_dict (<<>> for self._roots).
RECURSIVE ResolveFrom(_, _, _, _)
ResolveFrom(r, parts, i, cur) ==
    IF i > Len(parts) THEN [reg |-> r, exc |-> NoExc, parent |-> cur]
    ELSE
        LET part == parts[i]
            o == next_order(r, None)
            r1 == IF Has(Keys(r, cur), part) THEN r
                  ELSE DictSet(o.reg, cur, part,
                               Node("GROUP", part, "", o.val, "None", "None", r.calls))
            path == Append(cur, part)
            node == r1.nodes[path]
        IN  IF node.kind # "GROUP"
            THEN [reg |-> r1, exc |-> SegmentConflict(parts, i, node.kind),
                  parent |-> cur]
            ELSE ResolveFrom(r1, parts, i + 1, path)

\* Mutant: the group path is taken as one segment, not split at "/".
resolve_parent_unsplit(r, group_path) ==
    IF group_path = None THEN [reg |-> r, exc |-> NoExc, parent |-> <<>>]
    ELSE ResolveFrom(r, <<group_path[1]>>, 1, <<>>)

\* Returns the registry after the call, the exception raised (or NoExc) and
\* the path of the parent node (<<>> when the parent is the root).
resolve_parent(r, group_path) ==
    IF group_path = None THEN [reg |-> r, exc |-> NoExc, parent |-> <<>>]
    ELSE ResolveFrom(r, split(group_path[1], "/"), 1, <<>>)

\* f"{group_path + '/' if group_path else ''}{name}"
PathStr(group_path, name) ==
    IF group_path # None /\ group_path[1] # <<>>
    THEN group_path[1] \o <<"/">> \o name
    ELSE name

Out(r, exc) == [reg |-> r, exc |-> exc]

\* Mutant: two non-empty help texts conflict even when they are equal.
MergeGroup_strict(r, name, help_text) ==
    LET existing == r.nodes[<<name>>]
    IN  IF existing.kind # "GROUP"
        THEN Out(r, RegistryConflictError(
                        name, <<"exists as a command, cannot re-register as group">>))
        ELSE IF help_text # "" /\ existing.help_text # ""
        THEN Out(r, RegistryConflictError(
                        name, <<"group help mismatch", existing.help_text, help_text>>))
        ELSE IF help_text # "" /\ existing.help_text = ""
        THEN Out([r EXCEPT !.nodes[<<name>>].help_text = help_text], NoExc)
        ELSE Out(r, NoExc)

\* Mutant: a non-empty incoming help text always replaces the existing one.
MergeGroup_overwrite(r, name, help_text) ==
    LET existing == r.nodes[<<name>>]
    IN  IF existing.kind # "GROUP"
        THEN Out(r, RegistryConflictError(
                        name, <<"exists as a command, cannot re-register as group">>))
        ELSE IF help_text # ""
        THEN Out([r EXCEPT !.nodes[<<name>>].help_text = help_text], NoExc)
        ELSE Out(r, NoExc)

\* Mutant: the kind of the existing node is not looked at.
MergeGroup_anykind(r, name, help_text) ==
    LET existing == r.nodes[<<name>>]
    IN  IF help_text # "" /\ existing.help_text # "" /\ help_text # existing.help_text
        THEN Out(r, RegistryConflictError(
                        name, <<"group help mismatch", existing.help_text, help_text>>))
        ELSE IF help_text # "" /\ existing.help_text = ""
        THEN Out([r EXCEPT !.nodes[<<name>>].help_text = help_text], NoExc)
        ELSE Out(r, NoExc)

\* The merge branch of add_group: `name` is already a root key.
MergeGroup(r, name, help_text) ==
    LET existing == r.nodes[<<name>>]
    IN  IF existing.kind # "GROUP"
        THEN Out(r, RegistryConflictError(
                        name, <<"exists as a command, cannot re-register as group">>))
        ELSE IF help_text # "" /\ existing.help_text # "" /\ help_text # existing.help_text
        THEN Out(r, RegistryConflictError(
                        name, <<"group help mismatch", existing.help_text, help_text>>))
        ELSE IF help_text # "" /\ existing.help_text = ""
        THEN Out([r EXCEPT !.nodes[<<name>>].help_text = help_text], NoExc)
        ELSE Out(r, NoExc)

\* Mutant: a name with "/" is taken as a path and the group is declared,
\* with its help text, under the parent chain.
add_group_nested(r, name, help_text, order) ==
    IF check_frozen(r) # NoExc THEN Out(r, check_frozen(r))
    ELSE
        LET parts == split(name, "/")
            leaf == parts[Len(parts)]
        IN  IF validate_name(r, leaf) # NoExc THEN Out(r, validate_name(r, leaf))
            ELSE
                LET o == next_order(r, order)
                    rp == IF Len(parts) = 1
                          THEN resolve_parent(o.reg, None)
                          ELSE resolve_parent(
                                   o.reg, Some(join("/", SubSeq(parts, 1, Len(parts) - 1))))
                    node == Node("GROUP", leaf, help_text, o.val, "None", "None", r.calls)
                IN  IF rp.exc # NoExc THEN Out(rp.reg, rp.exc)
                    ELSE IF Has(Keys(rp.reg, rp.parent), leaf)
                    THEN Out(rp.reg, RegistryConflictError(name, <<"exists">>))
                    ELSE Out(DictSet(rp.reg, rp.parent, leaf, node), NoExc)

\* Mutant: a merging call with an explicit order moves the existing group.
add_group_reordering(r, name, help_text, order) ==
    IF check_frozen(r) # NoExc THEN Out(r, check_frozen(r))
    ELSE IF validate_name(r, name) # NoExc THEN Out(r, validate_name(r, name))
    ELSE
        LET o == next_order(r, order)
            m == MergeGroup(o.reg, name, help_text)
        IN  IF Has(o.reg.roots, name)
            THEN IF m.exc = NoExc
                 THEN Out([m.reg EXCEPT !.nodes[<<name>>].order = o.val], NoExc)
                 ELSE m
            ELSE Out(DictSet(o.reg, <<>>, name,
                             Node("GROUP", name, help_text, o.val, "None", "None", r.calls)),
                     NoExc)

\* CommandRegistry.add_group
add_group(r, name, help_text, order) ==
    IF check_frozen(r) # NoExc THEN Out(r, check_frozen(r))
    ELSE IF validate_name(r, name) # NoExc THEN Out(r, validate_name(r, name))
    ELSE
        LET o == next_order(r, order)
        IN  IF Has(o.reg.roots, name)
            THEN MergeGroup(o.reg, name, help_text)
            ELSE Out(DictSet(o.reg, <<>>, name,
                             Node("GROUP", name, help_text, o.val, "None", "None", r.calls)),
                     NoExc)

\* Mutant: a sibling of the same name is silently replaced.
AddLeaf_replace(r, group_path, node, detail) ==
    LET rp == resolve_parent(r, group_path)
    IN  IF rp.exc # NoExc THEN Out(rp.reg, rp.exc)
        ELSE IF Has(Keys(rp.reg, rp.parent), node.name)
        THEN Out([rp.reg EXCEPT !.nodes[Append(rp.parent, node.name)] = node], NoExc)
        ELSE Out(DictSet(rp.reg, rp.parent, node.name, node), NoExc)

\* The part of add_command / add_typer_app after the order is taken.
AddLeaf(r, group_path, node, detail) ==
    LET rp == resolve_parent(r, group_path)
    IN  IF rp.exc # NoExc THEN Out(rp.reg, rp.exc)
        ELSE IF Has(Keys(rp.reg, rp.parent), node.name)
        THEN Out(rp.reg,
                 RegistryConflictError(
                     PathStr(group_path, node.name),
                     detail[rp.reg.nodes[Append(rp.parent, node.name)].kind]))
        ELSE Out(DictSet(rp.reg, rp.parent, node.name, node), NoExc)

\* Mutant: the parent chain is resolved before the name is validated.
add_command_resolve_first(r, group_path, name, callback, help_text, order) ==
    IF check_frozen(r) # NoExc THEN Out(r, check_frozen(r))
    ELSE
        LET rp == resolve_parent(r, group_path)
        IN  IF rp.exc # NoExc THEN Out(rp.reg, rp.exc)
            ELSE IF validate_name(r, name) # NoExc THEN Out(rp.reg, validate_name(r, name))
            ELSE
                LET o == next_order(r, order)
                IN  AddLeaf(o.reg, group_path,
                            Node("COMMAND", name, help_text, o.val, callback, "None",
                                 r.calls),
                            [k \in {"GROUP", "COMMAND", "TYPER_APP"} |->
                                <<"already registered as", KindLower(k)>>])

\* CommandRegistry.add_command
add_command(r, group_path, name, callback, help_text, order) ==
    IF check_frozen(r) # NoExc THEN Out(r, check_frozen(r))
    ELSE IF validate_name(r, name) # NoExc THEN Out(r, validate_name(r, name))
    ELSE
        LET o == next_order(r, order)
        IN  AddLeaf(o.reg, group_path,
                    Node("COMMAND", name, help_text, o.val, callback, "None", r.calls),
                    [k \in {"GROUP", "COMMAND", "TYPER_APP"} |->
                        <<"already registered as", KindLower(k)>>])

add_typer_app(r, group_path, typer_app, name, help_text, order) ==
    IF check_frozen(r) # NoExc THEN Out(r, check_frozen(r))
    ELSE IF validate_name(r, name) # NoExc THEN Out(r, validate_name(r, name))
    ELSE
        LET o == next_order(r, order)
        IN  AddLeaf(o.reg, group_path,
                    Node("TYPER_APP", name, help_text, o.val, "None", typer_app, r.calls),
                    [k \in {"GROUP", "COMMAND", "TYPER_APP"} |-> <<"already registered">>])

\* Mutant: the flag is flipped instead of set.
freeze_toggle(r) == [r EXCEPT !.frozen = ~@]

freeze(r) == [r EXCEPT !.frozen = TRUE]

\* Mutant: an element moves in front of the elements of equal order.
RECURSIVE InsertByOrder_strict(_, _, _, _)
InsertByOrder_strict(r, parent, acc, k) ==
    IF acc = <<>> THEN <<k>>
    ELSE IF r.nodes[Append(parent, acc[Len(acc)])].order < r.nodes[Append(parent, k)].order
    THEN Append(acc, k)
    ELSE Append(InsertByOrder_strict(r, parent, SubSeq(acc, 1, Len(acc) - 1), k),
                acc[Len(acc)])

\* sorted(keys, key=lambda n: n.order): a stable sort of the dict's values.
\* InsertByOrder puts k behind every element of acc whose order is <= its own.
RECURSIVE InsertByOrder(_, _, _, _)
InsertByOrder(r, parent, acc, k) ==
    IF acc = <<>> THEN <<k>>
    ELSE IF r.nodes[Append(parent, acc[Len(acc)])].order <= r.nodes[Append(parent, k)].order
    THEN Append(acc, k)
    ELSE Append(InsertByOrder(r, parent, SubSeq(acc, 1, Len(acc) - 1), k), acc[Len(acc)])

RECURSIVE SortFrom(_, _, _, _, _)
SortFrom(r, parent, keys, i, acc) ==
    IF i > Len(keys) THEN acc
    ELSE SortFrom(r, parent, keys, i + 1, InsertByOrder(r, parent, acc, keys[i]))

sorted(r, parent) == SortFrom(r, parent, Keys(r, parent), 1, <<>>)

\* The paths _apply_node is called on, in call order, for the nodes named
\* by keys[i..] under parent.
RECURSIVE ApplyAll(_, _, _, _)
ApplyAll(r, parent, keys, i) ==
    IF i > Len(keys) THEN <<>>
    ELSE
        LET path == Append(parent, keys[i])
            below == IF r.nodes[path].kind = "GROUP"
                     THEN ApplyAll(r, path, sorted(r, path), 1)
                     ELSE <<>>
        IN  <<path>> \o below \o ApplyAll(r, parent, keys, i + 1)

apply(r) == ApplyAll(r, <<>>, sorted(r, <<>>), 1)

\* Mutant: apply sorts the root mapping in place.
applied_sorted_in_place(r) == [r EXCEPT !.roots = sorted(r, <<>>)]

\* The registry that apply leaves behind: sorted() builds new lists and
\* _apply_node only reads the nodes, so nothing of the registry is assigned.
applied(r) == r

\* ------------------------------------------------------------ the inputs

nA == <<"a">>

nB == <<"b">>

nC == <<"c">>

nVersion == <<"v", "e", "r", "s", "i", "o", "n">>

nUpper == <<"A">>

pA == <<"a">>

pAB == <<"a", "/", "b">>

pABC == <<"a", "/", "b", "/", "c">>

\* Arguments of add_group calls: every help text and order for a valid
\* name, and one call each with a reserved and a malformed name.
GroupArgs ==
    [name : {nA}, help_text : {"", "h1", "h2"}, order : {None, Some(1)}]
    \cup [name : {nVersion, nUpper}, help_text : {"h1"}, order : {None}]

\* Arguments of add_command calls.
CommandArgs ==
    [group_path : {None, Some(pA), Some(pAB)}, name : {nA, nB},
     callback : {"cb1", "cb2"}, help_text : {"h1"}, order : {None, Some(1)}]
    \cup [group_path : {Some(pAB)}, name : {nVersion, nUpper},
          callback : {"cb1"}, help_text : {"h1"}, order : {None}]
    \cup [group_path : {None, Some(pABC)}, name : {nC},
          callback : {"cb1"}, help_text : {"h1"}, order : {None}]

\* Arguments of add_typer_app calls.
TyperArgs ==
    [group_path : {None, Some(pA), Some(pAB)}, name : {nA, nB},
     typer_app : {"app1"}, help_text : {"h1"}, order : {None, Some(1)}]
    \cup [group_path : {None}, name : {nVersion, nUpper},
          typer_app : {"app1"}, help_text : {"h1"}, order : {None}]

\* The calls of a set that omit the explicit order.
OmitOrder(args) == {a \in args : a.order = None}

\* ------------------------------------------------------------ the actions

\* No loader and no run is under way: the registry is driven directly.
RunIdle ==
    /\ spec = None
    /\ argv = <<>>
    /\ pc = "api"
    /\ idx = 0
    /\ invoked = <<>>
    /\ printed = <<>>
    /\ raised = NoExc
    /\ context = None
    /\ FsIdle
    /\ result = None

SetReg(r) ==
    /\ roots' = r.roots
    /\ nodes' = r.nodes
    /\ frozen' = r.frozen
    /\ counter' = r.counter
    /\ reserved' = r.reserved
    /\ calls' = r.calls

Called(op, group_path, name, help_text, order, payload, exc) ==
    [op |-> op, group_path |-> group_path, name |-> name, help_text |-> help_text,
     order |-> order, payload |-> payload, exc |-> exc]

Begin(r) == [r EXCEPT !.calls = @ + 1]

Init ==
    /\ roots = NewRegistry({}).roots
    /\ nodes = NewRegistry({}).nodes
    /\ frozen = NewRegistry({}).frozen
    /\ counter = NewRegistry({}).counter
    /\ reserved = NewRegistry({}).reserved
    /\ calls = NewRegistry({}).calls
    /\ last = Called("init", None, <<>>, "", None, "None", NoExc)
    /\ visited = <<>>
    /\ RunIdle

AddGroup(args, max) ==
    /\ calls < max
    /\ \E a \in args :
          LET out == add_group(Begin(Reg), a.name, a.help_text, a.order)
          IN  /\ SetReg(out.reg)
              /\ last' = Called("add_group", None, a.name, a.help_text, a.order,
                                "None", out.exc)
    /\ visited' = <<>>
    /\ pc = "api"
    /\ UNCHANGED runVars

AddCommand(args, max) ==
    /\ calls < max
    /\ \E a \in args :
          LET out == add_command(Begin(Reg), a.group_path, a.name, a.callback,
                                 a.help_text, a.order)
          IN  /\ SetReg(out.reg)
              /\ last' = Called("add_command", a.group_path, a.name, a.help_text,
                                a.order, a.callback, out.exc)
    /\ visited' = <<>>
    /\ pc = "api"
    /\ UNCHANGED runVars

AddTyperApp(args, max) ==
    /\ calls < max
    /\ \E a \in args :
          LET out == add_typer_app(Begin(Reg), a.group_path, a.typer_app, a.name,
                                   a.help_text, a.order)
          IN  /\ SetReg(out.reg)
              /\ last' = Called("add_typer_app", a.group_path, a.name, a.help_text,
                                a.order, a.typer_app, out.exc)
    /\ visited' = <<>>
    /\ pc = "api"
    /\ UNCHANGED runVars

Freeze ==
    /\ SetReg(freeze(Reg))
    /\ last' = Called("freeze", None, <<>>, "", None, "None", NoExc)
    /\ visited' = <<>>
    /\ pc = "api"
    /\ UNCHANGED runVars

Apply ==
    /\ visited' = apply(Reg)
    /\ SetReg(applied(Reg))
    /\ last' = Called("apply", None, <<>>, "", None, "None", NoExc)
    /\ pc = "api"
    /\ UNCHANGED runVars

Next ==
    \/ AddGroup(GroupArgs, MaxCalls)
    \/ AddCommand(CommandArgs, MaxCalls)
    \/ AddTyperApp(TyperArgs, MaxCalls)
    \/ Freeze
    \/ Apply

Spec == Init /\ [][Next]_vars

\* Registrations that all omit the explicit order.
NextAuto ==
    \/ AddGroup(OmitOrder(GroupArgs), MaxAutoCalls)
    \/ AddCommand(OmitOrder(CommandArgs), MaxAutoCalls)
    \/ AddTyperApp(OmitOrder(TyperArgs), MaxAutoCalls)
    \/ Freeze
    \/ Apply

SpecAuto == Init /\ [][NextAuto]_vars

\* ------------------------------------------------------------ properties

RegOps == {"add_group", "add_command", "add_typer_app"}

LeafOps == {"add_command", "add_typer_app"}

\* The segments of a group_path argument (none for None).
PartsOf(group_path) == IF group_path = None THEN <<>> ELSE split(group_path[1], "/")

\* The call just made passed _check_frozen and _validate_name.
Accepted(name) == ~frozen /\ validate_name(Reg, name) = NoExc

Exists(path) == path \in DOMAIN nodes

Count(seq, x) == Cardinality({i \in 1..Len(seq) : seq[i] = x})

\* C1: on a frozen registry every add_group, add_command and add_typer_app
\* call raises RegistryFrozenError, whatever its arguments, and leaves the
\* node tree and the order counter as they were.
C1_FrozenRejectsAll ==
    [][(frozen /\ last'.op \in RegOps) =>
          /\ last'.exc = RegistryFrozenError
          /\ roots' = roots
          /\ nodes' = nodes
          /\ counter' = counter]_vars

\* A reserved name offered to a frozen, non-empty registry.
C1_Witness ==
    /\ frozen
    /\ last.op \in RegOps
    /\ last.name = nVersion
    /\ last.exc = RegistryFrozenError
    /\ roots # <<>>

\* C2: a new registry is not frozen, freeze() makes is_frozen true, and no
\* public operation (a second freeze included) makes it false again.
C2_FrozenOneWay ==
    /\ (last.op = "init" => ~frozen)
    /\ [][/\ (last'.op = "freeze" => frozen')
          /\ (frozen => frozen')]_vars

\* A registration tried after freeze(), the second call of the run.
C2_Witness ==
    /\ frozen
    /\ last.op = "add_group"
    /\ last.name = nA
    /\ last.exc = RegistryFrozenError
    /\ calls = 2

C4_GroupMergeRule ==
    [][(/\ last'.op = "add_group"
        /\ Accepted(last'.name)
        /\ Exists(<<last'.name>>)
        /\ nodes[<<last'.name>>].kind = "GROUP") =>
          LET old == nodes[<<last'.name>>].help_text
              new == last'.help_text
              now == nodes'[<<last'.name>>].help_text
              differ == old # "" /\ new # "" /\ old # new
          IN  /\ differ =>
                    /\ last'.exc = RegistryConflictError(
                           last'.name, <<"group help mismatch", old, new>>)
                    /\ now = old
              /\ ~differ => last'.exc = NoExc
              /\ (new # "" /\ old = "") => now = new
              /\ new = "" => now = old]_vars

\* Two different non-empty help texts met.
C4_Witness ==
    /\ last.op = "add_group"
    /\ last.exc.type = "RegistryConflictError"
    /\ last.exc.detail = <<"group help mismatch", "h1", "h2">>
    /\ nodes[<<last.name>>].help_text = "h1"

\* C5: add_group on a root name held by a command or a sub-app raises
\* RegistryConflictError, add_command on a name held by a group among the
\* target siblings raises RegistryConflictError, and the existing node
\* keeps its kind.
C5_GroupCommandCollision ==
    [][/\ (/\ last'.op = "add_group"
           /\ Accepted(last'.name)
           /\ Exists(<<last'.name>>)
           /\ nodes[<<last'.name>>].kind \in {"COMMAND", "TYPER_APP"}) =>
             /\ last'.exc.type = "RegistryConflictError"
             /\ nodes'[<<last'.name>>].kind = nodes[<<last'.name>>].kind
       /\ LET target == Append(PartsOf(last'.group_path), last'.name)
          IN  (/\ last'.op = "add_command"
               /\ Accepted(last'.name)
               /\ Exists(target)
               /\ nodes[target].kind = "GROUP") =>
                 /\ last'.exc.type = "RegistryConflictError"
                 /\ nodes'[target].kind = "GROUP"]_vars

\* A command offered under group a where a/b is already a group.
C5_Witness ==
    /\ last.op = "add_command"
    /\ last.group_path = Some(pA)
    /\ last.exc = RegistryConflictError(<<"a", "/", "b">>,
                                        <<"already registered as", "group">>)
    /\ nodes[<<nA, nB>>].kind = "GROUP"

\* C6: add_command or add_typer_app on a name that a sibling of any kind
\* holds under the resolved parent raises RegistryConflictError, and the
\* sibling's kind, callback, handle, help text and order stay as they were.
C6_LeavesNeverMerge ==
    [][LET target == Append(PartsOf(last'.group_path), last'.name)
       IN  (/\ last'.op \in LeafOps
            /\ Accepted(last'.name)
            /\ Exists(target)) =>
              /\ last'.exc.type = "RegistryConflictError"
              /\ target \in DOMAIN nodes'
              /\ nodes'[target].kind = nodes[target].kind
              /\ nodes'[target].callback = nodes[target].callback
              /\ nodes'[target].typer_app = nodes[target].typer_app
              /\ nodes'[target].help_text = nodes[target].help_text
              /\ nodes'[target].order = nodes[target].order]_vars

\* A command registered again under a group with the very same arguments.
C6_Witness ==
    LET target == Append(PartsOf(last.group_path), last.name)
    IN  /\ last.op = "add_command"
        /\ last.group_path # None
        /\ last.exc.type = "RegistryConflictError"
        /\ last.exc.detail = <<"already registered as", "command">>
        /\ Exists(target)
        /\ last.order # None
        /\ nodes[target].order = last.order[1]
        /\ nodes[target].callback = last.payload
        /\ nodes[target].help_text = last.help_text

\* The paths of the first i segments.
Prefix(parts, i) == SubSeq(parts, 1, i)

\* The keys of the dict at `parent` after the step.
KeysAfter(parent) == IF parent = <<>> THEN roots' ELSE nodes'[parent].children

\* C7: add_command or add_typer_app with a group path whose segments are
\* absent or groups, on an open registry, creates every absent segment as
\* a GROUP with empty help text and an auto-assigned order, reuses the
\* segments that exist, and places the new leaf among the children of the
\* last segment.
C7_PathAutoCreates ==
    [][LET parts == PartsOf(last'.group_path)
           leaf == Append(parts, last'.name)
       IN  (/\ last'.op \in LeafOps
            /\ Accepted(last'.name)
            /\ last'.group_path # None
            /\ \A i \in 1..Len(parts) :
                  Exists(Prefix(parts, i)) => nodes[Prefix(parts, i)].kind = "GROUP"
            /\ ~Exists(leaf)) =>
              /\ last'.exc = NoExc
              /\ \A i \in 1..Len(parts) :
                    LET seg == Prefix(parts, i)
                    IN  /\ seg \in DOMAIN nodes'
                        /\ nodes'[seg].kind = "GROUP"
                        /\ nodes'[seg].name = parts[i]
                        /\ Count(KeysAfter(Prefix(parts, i - 1)), parts[i]) = 1
                        /\ IF Exists(seg)
                           THEN /\ nodes'[seg].help_text = nodes[seg].help_text
                                /\ nodes'[seg].order = nodes[seg].order
                                /\ nodes'[seg].born = nodes[seg].born
                                /\ Len(nodes'[seg].children) >= Len(nodes[seg].children)
                                /\ SubSeq(nodes'[seg].children, 1, Len(nodes[seg].children))
                                      = nodes[seg].children
                           ELSE /\ nodes'[seg].help_text = ""
                                /\ nodes'[seg].order \in (counter + 1)..counter'
                                /\ nodes'[seg].born = calls'
              /\ leaf \in DOMAIN nodes'
              /\ nodes'[leaf].kind =
                    (IF last'.op = "add_command" THEN "COMMAND" ELSE "TYPER_APP")
              /\ Count(nodes'[parts].children, last'.name) = 1]_vars

\* add_command("a/b", ...) as the first call: a, a/b and the leaf are new.
C7_Witness ==
    /\ last.op = "add_command"
    /\ last.group_path = Some(pAB)
    /\ last.exc = NoExc
    /\ calls = 1
    /\ roots = <<nA>>
    /\ nodes[<<nA>>].children = <<nB>>
    /\ nodes[<<nA, nB>>].children = <<last.name>>
    /\ nodes[<<nA, nB, last.name>>].kind = "COMMAND"

\* C8: when a segment of the group path exists and is not a group, the
\* registration raises RegistryConflictError whose path is the group path
\* up to and including that segment, and no leaf is added.
C8_SegmentConflictPath ==
    [][LET parts == PartsOf(last'.group_path)
           leaf == Append(parts, last'.name)
       IN  \A i \in 1..Len(parts) :
              (/\ last'.op \in LeafOps
               /\ Accepted(last'.name)
               /\ Exists(Prefix(parts, i))
               /\ nodes[Prefix(parts, i)].kind # "GROUP") =>
                 /\ last'.exc.type = "RegistryConflictError"
                 /\ last'.exc.path = join("/", Prefix(parts, i))
                 /\ last'.exc.detail = <<"expected group but found",
                                         KindLower(nodes[Prefix(parts, i)].kind)>>
                 /\ leaf \notin DOMAIN nodes'
                 /\ nodes' = nodes
                 /\ roots' = roots]_vars

\* Path "a/b/c" where a/b is a command: the reported path is "a/b".
C8_Witness ==
    /\ last.op = "add_command"
    /\ last.group_path = Some(pABC)
    /\ last.exc = RegistryConflictError(pAB, <<"expected group but found", "command">>)
    /\ nodes[<<nA, nB>>].kind = "COMMAND"

Siblings(p, q) ==
    /\ p # q
    /\ Len(p) = Len(q)
    /\ SubSeq(p, 1, Len(p) - 1) = SubSeq(q, 1, Len(q) - 1)

\* apply() has just run and handed every node to _apply_node once.
Applied ==
    /\ last.op = "apply"
    /\ Len(visited) = Cardinality(DOMAIN nodes)
    /\ \A p \in DOMAIN nodes : Count(visited, p) = 1

\* C9: when every registration omitted the explicit order, apply() visits
\* the siblings of every parent, and the root nodes, in the order of the
\* calls that created them.
C9_CallOrder ==
    last.op = "apply" =>
        /\ Applied
        /\ \A p, q \in DOMAIN nodes :
              (Siblings(p, q) /\ nodes[p].born < nodes[q].born) =>
                  IndexOf(visited, p) < IndexOf(visited, q)

\* Three root nodes from three calls, one of them a group with a child.
C9_Witness ==
    /\ last.op = "apply"
    /\ Len(roots) = 3
    /\ \E p \in DOMAIN nodes : Len(p) = 2

\* C10: apply() visits the root nodes, and the children of every group,
\* in ascending order value, and siblings of equal order value in the order
\* in which they were registered.
C10_OrderThenRegistration ==
    last.op = "apply" =>
        /\ Applied
        /\ \A p, q \in DOMAIN nodes :
              (/\ Siblings(p, q)
               /\ \/ nodes[p].order < nodes[q].order
                  \/ /\ nodes[p].order = nodes[q].order
                     /\ nodes[p].born < nodes[q].born) =>
                  IndexOf(visited, p) < IndexOf(visited, q)

\* Two children of a group with the same order value, one auto-assigned
\* and one explicit.
C10_Witness ==
    /\ last.op = "apply"
    /\ \E p, q \in DOMAIN nodes :
          /\ Siblings(p, q)
          /\ Len(p) = 2
          /\ nodes[p].order = nodes[q].order
          /\ nodes[p].born < nodes[q].born

\* ------------------------------------------- names, reservations, paths

nInfo == <<"i", "n", "f", "o">>

nConfig == <<"c", "o", "n", "f", "i", "g">>

nValid == <<"a", "-", "1">>

\* Names that break one rule of the naming pattern each.
nDigitFirst == <<"1", "a">>

nHyphenFirst == <<"-", "a">>

nUnderscore == <<"a", "_", "b">>

nSpace == <<"a", " ", "b">>

nDot == <<"a", ".", "b">>

nEmpty == <<>>

nNewline == <<"a", "\n">>

BadNames == {nUpper, nDigitFirst, nHyphenFirst, nUnderscore, nSpace, nDot, nEmpty,
             nNewline, pAB}

ProbeNames == {nA, nValid, nVersion, nInfo, nConfig} \cup BadNames

\* Group paths whose segments are empty, malformed or reserved.
ProbePaths == {Some(pA), Some(pAB), Some(<<>>), Some(nUpper), Some(nVersion),
               Some(nConfig)}

NameGroupArgs ==
    [name : ProbeNames, help_text : {"h1"}, order : {None}]
    \cup [name : {nA, pAB}, help_text : {"", "h2"}, order : {None}]

NameCommandArgs ==
    [group_path : {None}, name : ProbeNames, callback : {"cb1"},
     help_text : {"h1"}, order : {None}]
    \cup [group_path : ProbePaths, name : {nA}, callback : {"cb1"},
          help_text : {"h1"}, order : {None}]

NameTyperArgs ==
    [group_path : {None}, name : {nA, nConfig, nVersion, nUpper},
     typer_app : {"app1"}, help_text : {"h1"}, order : {None}]
    \cup [group_path : {Some(nVersion)}, name : {nA}, typer_app : {"app1"},
          help_text : {"h1"}, order : {None}]

\* CommandRegistry() and CommandRegistry(reserved_names=frozenset({"config"}))
InitNames ==
    \E names \in {{}, {nConfig}} :
        /\ roots = NewRegistry(names).roots
        /\ nodes = NewRegistry(names).nodes
        /\ frozen = NewRegistry(names).frozen
        /\ counter = NewRegistry(names).counter
        /\ reserved = NewRegistry(names).reserved
        /\ calls = NewRegistry(names).calls
        /\ last = Called("init", None, <<>>, "", None, "None", NoExc)
        /\ visited = <<>>
        /\ RunIdle

NextNames ==
    \/ AddGroup(NameGroupArgs, MaxNameCalls)
    \/ AddCommand(NameCommandArgs, MaxNameCalls)
    \/ AddTyperApp(NameTyperArgs, MaxNameCalls)
    \/ Freeze
    \/ Apply

SpecNames == InitNames /\ [][NextNames]_vars

ReservedError(name) == RegistryConflictError(name, <<"is a reserved name">>)

\* C11: on an open registry every registration under a reserved name
\* ("version", "info", or a name given as reserved_names) raises
\* RegistryConflictError "is a reserved name" and creates no node; a name
\* that is not in the registry's reserved set is not refused as reserved.
C11_ReservedNamesRefused ==
    /\ ALWAYS_RESERVED \subseteq reserved
    /\ [][(~frozen /\ last'.op \in RegOps /\ NAME_RE_match(last'.name)) =>
             /\ last'.name \in reserved =>
                   /\ last'.exc = ReservedError(last'.name)
                   /\ roots' = roots
                   /\ nodes' = nodes
             /\ last'.name \notin reserved =>
                   /\ last'.exc # ReservedError(last'.name)
                   /\ last'.exc.type # "ValueError"]_vars

\* "config" refused by a registry built with reserved_names={"config"}.
C11_Witness ==
    /\ last.op = "add_group"
    /\ last.name = nConfig
    /\ nConfig \in reserved
    /\ last.exc = ReservedError(nConfig)
    /\ ~Exists(<<nConfig>>)

\* "config" registered in a registry built without reserved names.
C11_Lifted ==
    /\ last.op = "add_group"
    /\ last.name = nConfig
    /\ nConfig \notin reserved
    /\ last.exc = NoExc
    /\ Exists(<<nConfig>>)

\* The naming rule as documented: a lowercase letter followed by lowercase
\* letters, digits and hyphens, and nothing else.
PatternName(s) ==
    /\ Len(s) >= 1
    /\ s[1] \in Lower
    /\ \A i \in 2..Len(s) : s[i] \in Lower \cup Digit \cup {"-"}

ValidationError(exc, name) == exc.type = "ValueError" \/ exc = ReservedError(name)

\* C12: on an open registry a name passes validation exactly when it is a
\* lowercase letter followed by lowercase letters, digits or hyphens and is
\* not reserved; a refused name creates no node and consumes no order.
C12_NameRule ==
    [][(~frozen /\ last'.op \in RegOps) =>
          /\ ~ValidationError(last'.exc, last'.name) <=>
                 (PatternName(last'.name) /\ last'.name \notin reserved)
          /\ ValidationError(last'.exc, last'.name) =>
                 /\ roots' = roots
                 /\ nodes' = nodes
                 /\ counter' = counter]_vars

\* C13: the name of every node of the tree, groups auto-created from path
\* segments included, passes the naming pattern.
C13_EveryNodeNameValid ==
    \A p \in DOMAIN nodes : NAME_RE_match(nodes[p].name)

\* C14: no node at root level carries a reserved name, and so no node sits
\* beneath a reserved root name, whichever argument the name came in by.
C14_ReservedNeverInTree ==
    \A p \in DOMAIN nodes : p[1] \notin reserved

\* C15: a group with its help text can be declared by add_group under a
\* nested parent: naming a free place below a chain of groups (or of
\* nothing yet), the call succeeds and the group stands there with the
\* help text given.
C15_NestedGroupDeclared ==
    [][(/\ ~frozen
        /\ last'.op = "add_group"
        /\ last'.name = pAB
        /\ Exists(<<nA>>) => nodes[<<nA>>].kind = "GROUP"
        /\ ~Exists(<<nA, nB>>)) =>
          /\ last'.exc = NoExc
          /\ <<nA, nB>> \in DOMAIN nodes'
          /\ nodes'[<<nA, nB>>].kind = "GROUP"
          /\ nodes'[<<nA, nB>>].help_text = last'.help_text]_vars

\* C15 (amended): add_group has no path argument and works at root level
\* only: the one node it can create is the root node of its name, it
\* leaves every nested node as it was, and so a nested group, which only
\* path resolution creates, has empty help text.
C15_GroupsDeclaredAtRootOnly ==
    /\ [](\A p \in DOMAIN nodes :
              (Len(p) > 1 /\ nodes[p].kind = "GROUP") => nodes[p].help_text = "")
    /\ [][last'.op = "add_group" =>
             \A p \in DOMAIN nodes' :
                 /\ p \notin DOMAIN nodes => p = <<last'.name>>
                 /\ Len(p) > 1 => nodes'[p] = nodes[p]]_vars

\* add_group("a/b", ...) is refused while the nested group a/b exists.
C15_Witness ==
    /\ last.op = "add_group"
    /\ last.name = pAB
    /\ last.help_text = "h2"
    /\ last.exc = ValueError
    /\ Exists(<<nA, nB>>)
    /\ nodes[<<nA, nB>>].kind = "GROUP"
    /\ nodes[<<nA, nB>>].help_text = ""

\* ------------------------------------------------------- plugin loader
\*
\* Import paths and entry-point names are sequences of pieces, "." being a
\* piece of its own; messages are sequences of pieces too, so that
\* str(exc) and the f-strings of the code are computed by concatenation.

\* An exception of a class that carries nothing but its message.
PyExc(type, text) == [type |-> type, path |-> <<>>, detail |-> text]

\* errors.PluginLoadError(plugin_name, reason); .path is .plugin_name
PluginLoadError(plugin_name, reason) ==
    [type |-> "PluginLoadError", path |-> plugin_name, detail |-> reason]

\* SystemExit(code); the code is an int, None or some other object.
SystemExit(code) ==
    [type |-> "SystemExit", path |-> <<>>, detail |-> <<>>, code |-> code]

IntCode(n) == [kind |-> "int", val |-> n]

NoneCode == [kind |-> "None", val |-> 0]

StrCode == [kind |-> "str", val |-> 0]

\* Classes that derive from BaseException but not from Exception.
IsException(exc) == exc.type \notin {"none", "SystemExit", "KeyboardInterrupt"}

\* Classes that derive from errors.CliRootYoError.
IsCliRootYoError(exc) ==
    exc.type \in {"ContextNotInitializedError", "RegistryFrozenError",
                  "RegistryConflictError", "PluginLoadError", "SpecValidationError"}

\* str(exc): the message built by the class's __init__
str(exc) ==
    CASE exc.type = "RegistryConflictError" ->
             <<"Registration conflict at '">> \o exc.path \o <<"'">>
                 \o (IF exc.detail = <<>> THEN <<>> ELSE <<": ">> \o exc.detail)
      [] exc.type = "PluginLoadError" ->
             <<"Failed to load plugin '">> \o exc.path \o <<"'">>
                 \o (IF exc.detail = <<>> THEN <<>> ELSE <<": ">> \o exc.detail)
      [] exc.type = "RegistryFrozenError" ->
             <<"Cannot register: command registry is frozen.">>
      [] exc.type = "ContextNotInitializedError" ->
             <<"RuntimeContext has not been initialized.">>
      [] exc.type = "SpecValidationError" -> <<"Invalid CliSpec: ">> \o exc.detail
      [] OTHER -> exc.detail

\* s.rpartition(sep)
rpartition(s, sep) ==
    IF Has(s, sep)
    THEN LET i == CHOOSE k \in 1..Len(s) :
                      s[k] = sep /\ \A j \in (k + 1)..Len(s) : s[j] # sep
         IN  <<SubSeq(s, 1, i - 1), <<sep>>, SubSeq(s, i + 1, Len(s))>>
    ELSE <<<<>>, <<>>, s>>

Returned(val) == [exc |-> NoExc, val |-> val]

Raised(exc) == [exc |-> exc, val |-> "None"]

\* The one importable module, "m", and the plugin callables it defines.
ModuleM == {"ok1", "ok2", "boom", "ple", "exit", "ord0", "neg", "ctx"}

\* The plugin callables that installed distributions register as entry points.
Distributed == {"ok3", "ok4", "boom", "ple"}

\* importlib.import_module(module_path)
import_module(module_path) ==
    IF module_path = <<"m">> THEN Returned("m")
    ELSE Raised(PyExc("ModuleNotFoundError",
                      <<"No module named '">> \o module_path \o <<"'">>))

\* getattr(module, attr_name) on module m
getattr(module, attr_name) ==
    IF Len(attr_name) = 1 /\ attr_name[1] \in ModuleM THEN Returned(attr_name[1])
    ELSE Raised(PyExc("AttributeError",
                      <<"module 'm' has no attribute '">> \o attr_name \o <<"'">>))

\* list(entry_points(group=_EP_GROUP, name=ep_name)): what each installed
\* entry point's load() gives, in the order discovery lists them.
entry_points(ep_name) ==
    CASE ep_name = <<"ep-ok">> -> <<Returned("ok3")>>
      [] ep_name = <<"ep-boom">> -> <<Returned("boom")>>
      [] ep_name = <<"ep-ple">> -> <<Returned("ple")>>
      [] ep_name = <<"ep-two">> -> <<Returned("ok4"), Returned("ok3")>>
      [] ep_name = <<"ep-broken">> ->
             <<Raised(PyExc("ModuleNotFoundError", <<"No module named 'gone'">>))>>
      [] OTHER -> <<>>

\* ------------------------------------------------------ runtime context
\*
\* runtime._context is None or Some(c); c.born tells the RuntimeContext
\* objects apart: it is the number of the call that constructed the object.

ContextNotInitializedError ==
    [type |-> "ContextNotInitializedError", path |-> <<>>, detail |-> <<>>]

AlreadyInitialized == PyExc("RuntimeError", <<"RuntimeContext is already initialized.">>)

RuntimeContext(json_mode, born) == [json_mode |-> json_mode, born |-> born]

\* What a call of the runtime API returns or raises, and the _context it leaves.
Ran(exc, val, ctx) == [exc |-> exc, val |-> val, context |-> ctx]

\* Mutant: a second initialize replaces the established context.
initialize_replacing(ctx, json_mode, born) ==
    Ran(NoExc, Some(RuntimeContext(json_mode, born)), Some(RuntimeContext(json_mode, born)))

\* runtime.initialize(..., json_mode=...)
initialize(ctx, json_mode, born) ==
    IF ctx # None THEN Ran(AlreadyInitialized, None, ctx)
    ELSE Ran(NoExc, Some(RuntimeContext(json_mode, born)),
             Some(RuntimeContext(json_mode, born)))

\* Mutant: the accessor hands out a default context when none is established.
get_context_defaulting(ctx) ==
    IF ctx = None THEN Ran(NoExc, Some(RuntimeContext(FALSE, 0)), ctx)
    ELSE Ran(NoExc, ctx, ctx)

\* runtime.get_context()
get_context(ctx) ==
    IF ctx = None THEN Ran(ContextNotInitializedError, None, ctx)
    ELSE Ran(NoExc, ctx, ctx)

\* Mutant: _reset leaves the context in place.
reset_keeping(ctx) == Ran(NoExc, None, ctx)

\* runtime._reset()
reset(ctx) == Ran(NoExc, None, None)

\* ---------------------------------------------------------------- output
\*
\* What a call writes is a sequence of writes, each a sequence of pieces.
\* A character outside ASCII is written as its code point, "U+2713".

\* Mutant: a failing accessor counts as JSON mode.
is_json_mode_unless_human(ctx) == ctx = None \/ ctx[1].json_mode

\* output._is_json_mode(): get_context().json_mode, False when it raises
is_json_mode(ctx) ==
    LET out == get_context(ctx)
    IN  IF out.exc # NoExc THEN FALSE ELSE out.val[1].json_mode

Primitives ==
    {"heading", "success", "warning", "error", "action", "detail", "bullet",
     "print_text"}

\* What the console is handed by primitive f for msg.
Markup(f, msg) ==
    CASE f = "heading" -> <<<<>>, <<"[bold cyan]">> \o msg \o <<"[/bold cyan]">>, <<>>>>
      [] f = "success" -> <<<<"[green]U+2713[/green] ">> \o msg>>
      [] f = "warning" -> <<<<"[yellow]U+26A0[/yellow] ">> \o msg>>
      [] f = "error" -> <<<<"[red]U+2717[/red] ">> \o msg>>
      [] f = "action" -> <<<<"[cyan]U+2192[/cyan] ">> \o msg>>
      [] f = "detail" -> <<<<"   ">> \o msg>>
      [] f = "bullet" -> <<<<"   U+2022 ">> \o msg>>
      [] f = "print_text" -> <<msg>>

\* output.<f>(msg): the writes it makes under runtime context ctx
human(f, ctx, msg) == IF is_json_mode(ctx) THEN <<>> ELSE Markup(f, msg)

\* output.error(msg)
error(ctx, msg) == human("error", ctx, msg)

\* A mapping is the sequence of its <<key, value>> pairs in insertion order.
\* Keys are one-character strings.  A value is an integer (its digits), a
\* string (its characters) or a mapping; the unused fields are empty.
JInt(digits) == [t |-> "int", s |-> <<digits>>, d |-> <<>>]

JStr(chars) == [t |-> "str", s |-> chars, d |-> <<>>]

JDict(pairs) == [t |-> "dict", s |-> <<>>, d |-> pairs]

\* The escape character and a character outside ASCII.
ESC == "U+001B"

Emoji == "U+1F389"

KeyRank(k) == CHOOSE i \in 1..3 : <<"a", "b", "z">>[i] = k

RECURSIVE InsertByKey(_, _)
InsertByKey(acc, kv) ==
    IF acc = <<>> THEN <<kv>>
    ELSE IF KeyRank(acc[Len(acc)][1]) <= KeyRank(kv[1]) THEN Append(acc, kv)
    ELSE Append(InsertByKey(SubSeq(acc, 1, Len(acc) - 1), kv), acc[Len(acc)])

RECURSIVE SortItems(_, _, _)
SortItems(data, i, acc) ==
    IF i > Len(data) THEN acc ELSE SortItems(data, i + 1, InsertByKey(acc, data[i]))

\* Mutant: the items are written in insertion order.
items_as_inserted(data) == data

\* sort_keys=True: the items of a mapping in the order they are written
items(data) == SortItems(data, 1, <<>>)

\* ensure_ascii=False: control characters and the quote are escaped, every
\* other character is written as it is.
encode_char(c) ==
    IF c = ESC THEN "\\u001b"
    ELSE IF c = "\"" THEN "\\\"" ELSE c

RECURSIVE EncodeChars(_, _)
EncodeChars(chars, i) ==
    IF i > Len(chars) THEN <<>> ELSE <<encode_char(chars[i])>> \o EncodeChars(chars, i + 1)

\* indent=2: the indentation of nesting level `level`
RECURSIVE Indent(_)
Indent(level) == IF level = 0 THEN <<>> ELSE <<"  ">> \o Indent(level - 1)

RECURSIVE DumpValue(_, _)
RECURSIVE DumpItems(_, _, _)
DumpItems(its, i, level) ==
    IF i > Len(its) THEN <<>>
    ELSE Indent(level) \o <<"\"", its[i][1], "\"", ": ">> \o DumpValue(its[i][2], level)
             \o (IF i < Len(its) THEN <<",", "\n">> ELSE <<"\n">>)
             \o DumpItems(its, i + 1, level)

\* The text of one value written at nesting level `level`.
DumpValue(val, level) ==
    CASE val.t = "int" -> val.s
      [] val.t = "str" -> <<"\"">> \o EncodeChars(val.s, 1) \o <<"\"">>
      [] val.t = "dict" ->
             IF val.d = <<>> THEN <<"{}">>
             ELSE <<"{", "\n">> \o DumpItems(items(val.d), 1, level + 1)
                      \o Indent(level) \o <<"}">>

\* json.dumps(data, indent=2, sort_keys=True, ensure_ascii=False)
json_dumps(data) == DumpValue(JDict(data), 0)

\* output.emit_json(data): sys.stdout.write(text + "\n")
emit_json(data) == <<json_dumps(data) \o <<"\n">>>>

\* What one loader call leaves behind: the registry, the exception it
\* raises, the error lines it writes and the callables it invoked.
Loaded(r, exc, lines, inv) == [reg |-> r, exc |-> exc, lines |-> lines, invoked |-> inv]

\* callable_(registry, spec) for the plugin callables of the test suite:
\* four that register a root command each, three that raise, two that
\* register a root command with an explicit order, and one that reads the
\* runtime context.
Plugin(callable_, r, sp) ==
    CASE callable_ = "ok1" -> add_command(Begin(r), None, nA, "cb1", "h1", None)
      [] callable_ = "ok2" -> add_command(Begin(r), None, nB, "cb2", "h1", None)
      [] callable_ = "ok3" -> add_command(Begin(r), None, nC, "cb1", "h1", None)
      [] callable_ = "ok4" -> add_command(Begin(r), None, nValid, "cb1", "h1", None)
      [] callable_ = "boom" -> Out(r, PyExc("RuntimeError", <<"kaboom">>))
      [] callable_ = "ple" -> Out(r, PluginLoadError(<<"inner">>, <<"deep">>))
      [] callable_ = "exit" -> Out(r, SystemExit(IntCode(3)))
      [] callable_ = "ord0" -> add_command(Begin(r), None, nB, "cb2", "h1", Some(0))
      [] callable_ = "neg" -> add_command(Begin(r), None, nValid, "cb2", "h1", Some(0 - 1))
      [] callable_ = "ctx" -> Out(r, get_context(context).exc)

\* Mutant: a PluginLoadError raised by the callable is wrapped like any
\* other exception.
Invoke_wrap_all(r, plugin_name, callable_, sp, ctx, label, kind) ==
    LET out == Plugin(callable_, r, sp)
        inv == <<[kind |-> kind, ref |-> plugin_name, callable |-> callable_,
                  spec |-> sp]>>
    IN  IF out.exc = NoExc THEN Loaded(out.reg, NoExc, <<>>, inv)
        ELSE IF IsException(out.exc)
        THEN Loaded(out.reg, PluginLoadError(plugin_name, str(out.exc)),
                    error(ctx, label \o plugin_name \o <<"' raised: ">> \o str(out.exc)),
                    inv)
        ELSE Loaded(out.reg, out.exc, <<>>, inv)

\* Mutant: the loader swallows what the callable raises.
Invoke_swallow(r, plugin_name, callable_, sp, ctx, label, kind) ==
    Loaded(Plugin(callable_, r, sp).reg, NoExc, <<>>,
           <<[kind |-> kind, ref |-> plugin_name, callable |-> callable_, spec |-> sp]>>)

\* The second try block of _load_explicit and of _load_entry_point.
Invoke(r, plugin_name, callable_, sp, ctx, label, kind) ==
    LET out == Plugin(callable_, r, sp)
        inv == <<[kind |-> kind, ref |-> plugin_name, callable |-> callable_,
                  spec |-> sp]>>
    IN  IF out.exc = NoExc THEN Loaded(out.reg, NoExc, <<>>, inv)
        ELSE IF out.exc.type = "PluginLoadError" THEN Loaded(out.reg, out.exc, <<>>, inv)
        ELSE IF IsException(out.exc)
        THEN Loaded(out.reg, PluginLoadError(plugin_name, str(out.exc)),
                    error(ctx, label \o plugin_name \o <<"' raised: ">> \o str(out.exc)),
                    inv)
        ELSE Loaded(out.reg, out.exc, <<>>, inv)

\* The first try block of both loaders, once resolution has raised exc.
Unresolved(r, plugin_name, exc, ctx, label) ==
    Loaded(r, PluginLoadError(plugin_name, str(exc)),
           error(ctx, label \o plugin_name \o <<"': ">> \o str(exc)), <<>>)

\* The first try block of _load_explicit: the callable or the exception.
ResolveExplicit(import_path) ==
    LET module_path == rpartition(import_path, ".")[1]
        attr_name == rpartition(import_path, ".")[3]
    IN  IF module_path = <<>>
        THEN Raised(PyExc("ImportError",
                          <<"Invalid import path: '">> \o import_path
                              \o <<"' (no module component)">>))
        ELSE IF import_module(module_path).exc # NoExc THEN import_module(module_path)
        ELSE getattr(import_module(module_path).val, attr_name)

load_explicit(import_path, r, sp, ctx) ==
    LET res == ResolveExplicit(import_path)
    IN  IF res.exc # NoExc THEN Unresolved(r, import_path, res.exc, ctx, <<"Plugin '">>)
        ELSE Invoke(r, import_path, res.val, sp, ctx, <<"Plugin '">>, "explicit")

\* The first try block of _load_entry_point: matches[0].load()
ResolveEntryPoint(ep_name) ==
    LET matches == entry_points(ep_name)
    IN  IF Len(matches) = 0
        THEN Raised(PyExc("ImportError",
                          <<"No entry point '">> \o ep_name
                              \o <<"' in group 'cli_root_yo.plugins'">>))
        ELSE matches[1]

load_entry_point(ep_name, r, sp, ctx) ==
    LET res == ResolveEntryPoint(ep_name)
    IN  IF res.exc # NoExc
        THEN Unresolved(r, ep_name, res.exc, ctx, <<"Entry-point plugin '">>)
        ELSE Invoke(r, ep_name, res.val, sp, ctx, <<"Entry-point plugin '">>,
                    "entry_point")

Tagged(kind, refs) == [i \in 1..Len(refs) |-> [kind |-> kind, ref |-> refs[i]]]

\* Mutant: the entry-point loop runs before the explicit loop.
load_order_entry_points_first(plugin_spec) ==
    Tagged("entry_point", plugin_spec.entry_points)
        \o Tagged("explicit", plugin_spec.explicit)

\* The two loops of load_plugins: the plugins in the order they are loaded.
load_order(plugin_spec) ==
    Tagged("explicit", plugin_spec.explicit)
        \o Tagged("entry_point", plugin_spec.entry_points)

\* ------------------------------------------------ load_plugins, stepwise

SeqsUpTo(S, n) == UNION {[1..k -> S] : k \in 0..n}

ExplicitRefs ==
    {<<"m", ".", "ok1">>, <<"m", ".", "ok2">>, <<"m", ".", "boom">>,
     <<"m", ".", "ple">>, <<"m", ".", "exit">>, <<"m", ".", "none">>,
     <<"x", ".", "f">>, <<"no_dots">>}

EntryPointRefs ==
    {<<"ep-ok">>, <<"ep-two">>, <<"ep-boom">>, <<"ep-ple">>, <<"ep-broken">>,
     <<"ep-none">>}

PluginSpec(explicit, eps) == [explicit |-> explicit, entry_points |-> eps]

CliSpec(prog_name, app_display_name, dist_name, root_help, config, env, plugins) ==
    [prog_name |-> prog_name, app_display_name |-> app_display_name,
     dist_name |-> dist_name, root_help |-> root_help, config |-> config,
     env |-> env, plugins |-> plugins]

\* A well-formed host spec without optional groups, as the loader's tests use.
HostSpec(plugins) == CliSpec(<<"t">>, "Test", "test", "help", None, None, plugins)

LoadSpecs ==
    {HostSpec(PluginSpec(e, p)) :
        e \in SeqsUpTo(ExplicitRefs, MaxPlugins),
        p \in SeqsUpTo(EntryPointRefs, MaxPlugins)}

\* load_plugins(CommandRegistry(), spec) is entered.
InitLoad ==
    /\ roots = NewRegistry({}).roots
    /\ nodes = NewRegistry({}).nodes
    /\ frozen = NewRegistry({}).frozen
    /\ counter = NewRegistry({}).counter
    /\ reserved = NewRegistry({}).reserved
    /\ calls = NewRegistry({}).calls
    /\ last = Called("init", None, <<>>, "", None, "None", NoExc)
    /\ visited = <<>>
    /\ spec \in LoadSpecs
    /\ argv = <<>>
    /\ pc = "load_plugins"
    /\ idx = 0
    /\ invoked = <<>>
    /\ printed = <<>>
    /\ raised = NoExc
    /\ context = None
    /\ FsIdle
    /\ result = None

\* One iteration of a loop of load_plugins has left `out`.
LoadStep(op, ref, out) ==
    /\ SetReg(out.reg)
    /\ idx' = idx + 1
    /\ invoked' = invoked \o out.invoked
    /\ printed' = printed \o out.lines
    /\ raised' = out.exc
    /\ pc' = IF out.exc = NoExc THEN "load_plugins" ELSE "raised"
    /\ last' = Called(op, None, ref, "", None, "None", out.exc)
    /\ UNCHANGED <<files, clock, visited, spec, argv, context, result>>

LoadExplicit ==
    /\ pc = "load_plugins"
    /\ idx < Len(load_order(spec.plugins))
    /\ load_order(spec.plugins)[idx + 1].kind = "explicit"
    /\ LET ref == load_order(spec.plugins)[idx + 1].ref
       IN  LoadStep("_load_explicit", ref, load_explicit(ref, Reg, spec, context))

LoadEntryPoint ==
    /\ pc = "load_plugins"
    /\ idx < Len(load_order(spec.plugins))
    /\ load_order(spec.plugins)[idx + 1].kind = "entry_point"
    /\ LET ref == load_order(spec.plugins)[idx + 1].ref
       IN  LoadStep("_load_entry_point", ref,
                    load_entry_point(ref, Reg, spec, context))

\* Both loops are through: load_plugins returns.
PluginsLoaded ==
    /\ pc = "load_plugins"
    /\ idx = Len(load_order(spec.plugins))
    /\ pc' = "loaded"
    /\ UNCHANGED <<files, clock, roots, nodes, frozen, counter, reserved, calls, last, visited,
                   spec, argv, idx, invoked, printed, raised, context, result>>

NextLoad ==
    \/ LoadExplicit
    \/ LoadEntryPoint
    \/ PluginsLoaded

SpecLoad == InitLoad /\ [][NextLoad]_vars

LoadOps == {"_load_explicit", "_load_entry_point"}

\* The k-th plugin of the spec, explicit list first, each list in its order.
Listed(k) ==
    IF k <= Len(spec.plugins.explicit)
    THEN [kind |-> "explicit", ref |-> spec.plugins.explicit[k]]
    ELSE [kind |-> "entry_point",
          ref |-> spec.plugins.entry_points[k - Len(spec.plugins.explicit)]]

NumListed == Len(spec.plugins.explicit) + Len(spec.plugins.entry_points)

\* The root command each registering callable leaves in the registry.
Registers ==
    [c \in {"ok1", "ok2", "ok3", "ok4"} |->
        CASE c = "ok1" -> nA [] c = "ok2" -> nB [] c = "ok3" -> nC [] c = "ok4" -> nValid]

\* C16: the plugins invoked are, in order, the plugins of the explicit list
\* followed by those of the entry-point list; each was handed the spec that
\* load_plugins was given and registered into the registry it was given;
\* when load_plugins returns every listed plugin has been invoked.
C16_ExplicitThenEntryPoints ==
    /\ Len(invoked) <= NumListed
    /\ \A k \in 1..Len(invoked) :
          /\ invoked[k].kind = Listed(k).kind
          /\ invoked[k].ref = Listed(k).ref
          /\ invoked[k].spec = spec
          /\ (invoked[k].callable \in DOMAIN Registers /\ k < Len(invoked)) =>
                 Exists(<<Registers[invoked[k].callable]>>)
    /\ pc = "loaded" => Len(invoked) = NumListed

\* Two explicit plugins and two entry-point plugins, all invoked.
C16_Witness ==
    /\ pc = "loaded"
    /\ spec.plugins.explicit = <<<<"m", ".", "ok2">>, <<"m", ".", "ok1">>>>
    /\ spec.plugins.entry_points = <<<<"ep-two">>, <<"ep-ok">>>>
    /\ Len(invoked) = 4
    /\ Exists(<<nA>>) /\ Exists(<<nB>>) /\ Exists(<<nC>>) /\ Exists(<<nValid>>)

\* The import paths and entry-point names that do not resolve to a callable,
\* with the text of the exception that resolving them raises.
Unresolvable ==
    (<<"no_dots">> :> <<"Invalid import path: '", "no_dots", "' (no module component)">>)
    @@ (<<"x", ".", "f">> :> <<"No module named '", "x", "'">>)
    @@ (<<"m", ".", "none">> :> <<"module 'm' has no attribute '", "none", "'">>)
    @@ (<<"ep-none">> :> <<"No entry point '", "ep-none",
                           "' in group 'cli_root_yo.plugins'">>)
    @@ (<<"ep-broken">> :> <<"No module named 'gone'">>)

\* C17: a plugin that cannot be resolved, or whose callable raises an
\* exception (an Exception subclass) other than PluginLoadError, makes the
\* loader raise PluginLoadError with that plugin's import path or entry-point
\* name and the original exception text; an unresolved plugin is not
\* invoked, and once an exception is in flight nothing more is invoked.
C17_FailureWrappedAndLoadingStops ==
    [][/\ (last'.op \in LoadOps /\ last'.name \in DOMAIN Unresolvable) =>
            /\ raised' = PluginLoadError(last'.name, Unresolvable[last'.name])
            /\ invoked' = invoked
            /\ pc' = "raised"
       /\ (/\ last'.op \in LoadOps
           /\ Len(invoked') = Len(invoked) + 1
           /\ invoked'[Len(invoked')].callable = "boom") =>
            /\ raised' = PluginLoadError(last'.name, <<"kaboom">>)
            /\ pc' = "raised"
       /\ (/\ last'.op \in LoadOps
           /\ Len(invoked') = Len(invoked) + 1
           /\ invoked'[Len(invoked')].callable \in DOMAIN Registers
           /\ Exists(<<Registers[invoked'[Len(invoked')].callable]>>)) =>
            /\ raised' = PluginLoadError(
                             last'.name,
                             str(RegistryConflictError(
                                     Registers[invoked'[Len(invoked')].callable],
                                     <<"already registered as", "command">>)))
            /\ pc' = "raised"
       /\ raised # NoExc => (invoked' = invoked /\ raised' = raised)]_vars

\* The first plugin raised "kaboom"; the plugins listed after it were left alone.
C17_Witness ==
    /\ pc = "raised"
    /\ raised = PluginLoadError(<<"m", ".", "boom">>, <<"kaboom">>)
    /\ spec.plugins.explicit = <<<<"m", ".", "boom">>, <<"m", ".", "ok1">>>>
    /\ spec.plugins.entry_points = <<<<"ep-ok">>>>
    /\ Len(invoked) = 1
    /\ ~Exists(<<nA>>)
    /\ ~Exists(<<nC>>)

\* C18: a PluginLoadError raised by a plugin callable leaves the loader as
\* it is, with the inner plugin name and reason, whatever the outer plugin
\* is called.
C18_PluginLoadErrorPassesThrough ==
    [][(/\ last'.op \in LoadOps
        /\ Len(invoked') = Len(invoked) + 1
        /\ invoked'[Len(invoked')].callable = "ple") =>
          /\ raised' = PluginLoadError(<<"inner">>, <<"deep">>)
          /\ raised'.path # last'.name
          /\ pc' = "raised"]_vars

C18_Witness ==
    /\ pc = "raised"
    /\ last.op = "_load_entry_point"
    /\ last.name = <<"ep-ple">>
    /\ invoked[Len(invoked)].callable = "ple"
    /\ raised = PluginLoadError(<<"inner">>, <<"deep">>)

\* C19: an entry-point name that discovery matches more than once fails
\* with PluginLoadError for that name, and none of the matches is invoked.
C19_AmbiguousEntryPointFails ==
    [][(last'.op = "_load_entry_point" /\ Len(entry_points(last'.name)) > 1) =>
          /\ raised'.type = "PluginLoadError"
          /\ raised'.path = last'.name
          /\ invoked' = invoked]_vars

\* ------------------------------------------------------ create_app, run

SpecValidationError(detail) ==
    [type |-> "SpecValidationError", path |-> <<>>, detail |-> detail]

\* Mutant: only the program name is looked at.
validate_spec_prog_name_only(sp) ==
    IF sp.prog_name = <<>>
    THEN SpecValidationError(<<"prog_name must not be empty">>)
    ELSE IF ~NAME_RE_match(sp.prog_name)
    THEN SpecValidationError(<<"prog_name '">> \o sp.prog_name \o <<"' is not a valid name">>)
    ELSE NoExc

\* app._validate_spec(spec): the exception it raises, NoExc when it returns
validate_spec(sp) ==
    IF sp.prog_name = <<>>
    THEN SpecValidationError(<<"prog_name must not be empty">>)
    ELSE IF ~NAME_RE_match(sp.prog_name)
    THEN SpecValidationError(<<"prog_name '">> \o sp.prog_name \o <<"' is not a valid name">>)
    ELSE IF sp.app_display_name = ""
    THEN SpecValidationError(<<"app_display_name must not be empty">>)
    ELSE IF sp.dist_name = ""
    THEN SpecValidationError(<<"dist_name must not be empty">>)
    ELSE IF sp.root_help = ""
    THEN SpecValidationError(<<"root_help must not be empty">>)
    ELSE NoExc

nEnv == <<"e", "n", "v">>

\* The reserved names create_app builds from the enabled optional groups.
OptionalReserved(sp) ==
    (IF sp.config # None THEN {nConfig} ELSE {})
        \cup (IF sp.env # None THEN {nEnv} ELSE {})

\* Mutant: the lifted reservation is not put back.
Privileged_unrestored(r, name, out) == out

\* registry._reserved.discard(name); <call>; registry._reserved.add(name),
\* the add being skipped when the call raises.
Privileged(r, name, out) ==
    IF out.exc # NoExc THEN out
    ELSE Out([out.reg EXCEPT !.reserved = @ \cup {name}], NoExc)

Lifted(r, name) == Begin([r EXCEPT !.reserved = @ \ {name}])

\* Mutant: version is registered behind info.
register_version_late(r) ==
    Privileged(r, nVersion,
               add_command(Lifted(r, nVersion), None, nVersion, "_version_callback",
                           "Show version.", Some(2)))

\* _register_version
register_version(r) ==
    Privileged(r, nVersion,
               add_command(Lifted(r, nVersion), None, nVersion, "_version_callback",
                           "Show version.", Some(0)))

\* Mutant: info is registered with an order above the first auto-assigned one.
register_info_late(r) ==
    Privileged(r, nInfo,
               add_command(Lifted(r, nInfo), None, nInfo, "_info_callback",
                           "Show system info.", Some(2)))

\* _register_info
register_info(r) ==
    Privileged(r, nInfo,
               add_command(Lifted(r, nInfo), None, nInfo, "_info_callback",
                           "Show system info.", Some(1)))

\* registry.add_command(group, name, ...) for each name in turn, up to the
\* first call that raises.
RECURSIVE AddCommands(_, _, _, _)
AddCommands(out, group, names, i) ==
    IF out.exc # NoExc \/ i > Len(names) THEN out
    ELSE AddCommands(add_command(Begin(out.reg), Some(group), names[i], "callback",
                                 "help", None),
                     group, names, i + 1)

ConfigCommands ==
    <<<<"p", "a", "t", "h">>, <<"i", "n", "i", "t">>, <<"s", "h", "o", "w">>,
      <<"v", "a", "l", "i", "d", "a", "t", "e">>, <<"e", "d", "i", "t">>, <<"r", "e", "s", "e", "t">>>>

EnvCommands ==
    <<<<"s", "t", "a", "t", "u", "s">>, <<"a", "c", "t", "i", "v", "a", "t", "e">>,
      <<"d", "e", "a", "c", "t", "i", "v", "a", "t", "e">>, <<"r", "e", "s", "e", "t">>>>

register_config_group(r) ==
    AddCommands(Privileged(r, nConfig,
                           add_group(Lifted(r, nConfig), nConfig,
                                     "Configuration management.", None)),
                nConfig, ConfigCommands, 1)

register_env_group(r) ==
    AddCommands(Privileged(r, nEnv,
                           add_group(Lifted(r, nEnv), nEnv, "Environment management.",
                                     None)),
                nEnv, EnvCommands, 1)

\* json_mode = "--json" in args or "-j" in args
JsonMode(args) == Has(args, "--json") \/ Has(args, "-j")

Handled(res, lines, escaped) == [result |-> res, lines |-> lines, escaped |-> escaped]

\* Mutant: a framework error is reported with the exit code of a usage error.
run_except_usage_code(exc, ctx) ==
    IF exc.type = "SystemExit"
    THEN Handled(Some(IF exc.code.kind = "int" THEN exc.code.val ELSE 0), <<>>, FALSE)
    ELSE IF IsCliRootYoError(exc)
    THEN Handled(Some(2), error(ctx, str(exc)), FALSE)
    ELSE IF IsException(exc)
    THEN Handled(Some(1), error(ctx, <<"Unexpected error: ">> \o str(exc)), FALSE)
    ELSE Handled(None, <<>>, TRUE)

\* The except clauses of run: what run returns and prints for exc, or that
\* exc is of a class none of the clauses catches.
run_except(exc, ctx) ==
    IF exc.type = "SystemExit"
    THEN Handled(Some(IF exc.code.kind = "int" THEN exc.code.val ELSE 0), <<>>, FALSE)
    ELSE IF IsCliRootYoError(exc)
    THEN Handled(Some(1), error(ctx, str(exc)), FALSE)
    ELSE IF IsException(exc)
    THEN Handled(Some(1), error(ctx, <<"Unexpected error: ">> \o str(exc)), FALSE)
    ELSE Handled(None, <<>>, TRUE)

\* What the dispatched command does: it returns, or it raises.
Outcomes ==
    {NoExc,
     SystemExit(IntCode(0)), SystemExit(IntCode(1)), SystemExit(IntCode(2)),
     SystemExit(NoneCode), SystemExit(StrCode),
     ContextNotInitializedError, RegistryFrozenError,
     RegistryConflictError(nA, <<"already registered as", "command">>),
     PluginLoadError(<<"late">>, <<"deep">>),
     SpecValidationError(<<"root_help must not be empty">>),
     PyExc("RuntimeError", <<"boom">>), PyExc("UsageError", <<"No such command">>)}

RunExplicitRefs ==
    {<<"m", ".", "ok1">>, <<"m", ".", "boom">>, <<"m", ".", "exit">>, <<"no_dots">>,
     <<"m", ".", "ord0">>, <<"m", ".", "neg">>, <<"m", ".", "ctx">>}

RunEntryPointRefs == {<<"ep-ok">>, <<"ep-ple">>}

RunPluginSpecs ==
    {PluginSpec(e, p) :
        e \in SeqsUpTo(RunExplicitRefs, MaxRunPlugins),
        p \in SeqsUpTo(RunEntryPointRefs, MaxRunPlugins)}

\* Host specs: well-formed ones with every choice of optional groups and
\* plugins, and one for each way of being malformed.
RunSpecs ==
    {CliSpec(<<"t">>, "Test", "test", "help", c, e, pl) :
        c \in {None, Some("config.json")}, e \in {None, Some("env")},
        pl \in RunPluginSpecs}
    \cup {CliSpec(n, "Test", "test", "help", None, None,
                  PluginSpec(<<<<"m", ".", "ok1">>>>, <<>>)) :
            n \in {<<>>, nUpper, <<"t", "\n">>}}
    \cup {CliSpec(<<"t">>, d[1], d[2], d[3], Some("config.json"), None,
                  PluginSpec(<<<<"m", ".", "ok1">>>>, <<>>)) :
            d \in {<<"", "test", "help">>, <<"Test", "", "help">>, <<"Test", "test", "">>}}

RunArgs == {<<"cmd">>, <<"--json", "cmd">>, <<"cmd", "-j">>}

\* run(spec, argv) is entered, in a process that may have a runtime
\* context left from earlier.
InitRun ==
    /\ roots = NewRegistry({}).roots
    /\ nodes = NewRegistry({}).nodes
    /\ frozen = NewRegistry({}).frozen
    /\ counter = NewRegistry({}).counter
    /\ reserved = NewRegistry({}).reserved
    /\ calls = NewRegistry({}).calls
    /\ last = Called("init", None, <<>>, "", None, "None", NoExc)
    /\ visited = <<>>
    /\ spec \in RunSpecs
    /\ argv \in RunArgs
    /\ pc = "_reset"
    /\ idx = 0
    /\ invoked = <<>>
    /\ printed = <<>>
    /\ raised = NoExc
    /\ context \in {None, Some(RuntimeContext(TRUE, 0))}
    /\ FsIdle
    /\ result = None

Did(op, exc) == Called(op, None, <<>>, "", None, "None", exc)

\* One step of create_app or run that leaves the registry as `out.reg` and
\* goes on at `then` unless it raised.
RunStep(op, out, then) ==
    /\ SetReg(out.reg)
    /\ raised' = out.exc
    /\ pc' = IF out.exc = NoExc THEN then ELSE "raised"
    /\ last' = Did(op, out.exc)
    /\ UNCHANGED <<files, clock, visited, spec, argv, idx, invoked, printed, context, result>>

\* run: _reset()
RunReset ==
    /\ pc = "_reset"
    /\ context' = reset(context).context
    /\ pc' = "_validate_spec"
    /\ last' = Did("_reset", NoExc)
    /\ UNCHANGED <<files, clock, roots, nodes, frozen, counter, reserved, calls, visited,
                   spec, argv, idx, invoked, printed, raised, result>>

\* create_app: _validate_spec(spec) and, when it passes, the construction
\* of the registry with the optional groups' names reserved.
ValidateSpec ==
    /\ pc = "_validate_spec"
    /\ RunStep("_validate_spec",
               Out(IF validate_spec(spec) = NoExc
                   THEN NewRegistry(OptionalReserved(spec)) ELSE Reg,
                   validate_spec(spec)),
               "_register_version")

RegisterVersion ==
    /\ pc = "_register_version"
    /\ RunStep("_register_version", register_version(Reg), "_register_info")

AfterConfig == IF spec.env # None THEN "_register_env_group" ELSE "load_plugins"

\* Mutant: the config group is registered whatever the spec says.
AfterInfo_config_always == "_register_config_group"

AfterInfo == IF spec.config # None THEN "_register_config_group" ELSE AfterConfig

RegisterInfo ==
    /\ pc = "_register_info"
    /\ RunStep("_register_info", register_info(Reg), AfterInfo)

RegisterConfigGroup ==
    /\ pc = "_register_config_group"
    /\ RunStep("_register_config_group", register_config_group(Reg), AfterConfig)

RegisterEnvGroup ==
    /\ pc = "_register_env_group"
    /\ RunStep("_register_env_group", register_env_group(Reg), "load_plugins")

\* create_app: registry.freeze()
FreezeRegistry ==
    /\ pc = "loaded"
    /\ RunStep("freeze", Out(freeze(Reg), NoExc), "apply")

\* create_app: registry.apply(app)
ApplyRegistry ==
    /\ pc = "apply"
    /\ visited' = apply(Reg)
    /\ SetReg(applied(Reg))
    /\ pc' = "initialize"
    /\ last' = Did("apply", NoExc)
    /\ UNCHANGED <<files, clock, spec, argv, idx, invoked, printed, raised, context, result>>

\* run: initialize(spec, xdg_paths, json_mode=json_mode, debug=debug)
Initialize ==
    /\ pc = "initialize"
    /\ LET out == initialize(context, JsonMode(argv), calls + 1)
       IN  /\ context' = out.context
           /\ raised' = out.exc
           /\ pc' = IF out.exc = NoExc THEN "dispatch" ELSE "raised"
           /\ last' = Did("initialize", out.exc)
    /\ UNCHANGED <<files, clock, roots, nodes, frozen, counter, reserved, calls, visited,
                   spec, argv, idx, invoked, printed, result>>

\* run: app(args, standalone_mode=False); return 0
Dispatch ==
    /\ pc = "dispatch"
    /\ \E outcome \in Outcomes :
          /\ raised' = outcome
          /\ pc' = IF outcome = NoExc THEN "done" ELSE "raised"
          /\ result' = IF outcome = NoExc THEN Some(0) ELSE result
          /\ last' = Did("app", outcome)
    /\ UNCHANGED <<files, clock, roots, nodes, frozen, counter, reserved, calls, visited,
                   spec, argv, idx, invoked, printed, context>>

\* run: the except clauses
Handle ==
    /\ pc = "raised"
    /\ LET h == run_except(raised, context)
       IN  /\ result' = h.result
           /\ printed' = printed \o h.lines
           /\ pc' = IF h.escaped THEN "escaped" ELSE "done"
    /\ last' = Did("except", raised)
    /\ UNCHANGED <<files, clock, roots, nodes, frozen, counter, reserved, calls, visited,
                   spec, argv, idx, invoked, raised, context>>

NextRun ==
    \/ RunReset
    \/ ValidateSpec
    \/ RegisterVersion
    \/ RegisterInfo
    \/ RegisterConfigGroup
    \/ RegisterEnvGroup
    \/ LoadExplicit
    \/ LoadEntryPoint
    \/ PluginsLoaded
    \/ FreezeRegistry
    \/ ApplyRegistry
    \/ Initialize
    \/ Dispatch
    \/ Handle

SpecRun == InitRun /\ [][NextRun]_vars

\* The positions of run at which a statement is still to be executed.
RunPositions ==
    {"_reset", "_validate_spec", "_register_version", "_register_info",
     "_register_config_group", "_register_env_group", "load_plugins", "loaded",
     "apply", "initialize", "dispatch", "raised"}

FrameworkErrors ==
    {"SpecValidationError", "PluginLoadError", "RegistryConflictError",
     "RegistryFrozenError", "ContextNotInitializedError"}

\* C20: run never lets an exception or a SystemExit out and never stops
\* short of returning; what it returns is an integer: 1 after a framework
\* error raised while the app was built or the command ran, 1 after any
\* other exception, 0 after a command that completed normally.
C20_RunReturnsExitCode ==
    /\ pc # "escaped"
    /\ pc # "done" =>
          /\ result = None
          /\ pc \in RunPositions
          /\ pc = "load_plugins" => idx <= NumListed
    /\ pc = "done" =>
          /\ result # None
          /\ result[1] \in Int
          /\ raised.type \in FrameworkErrors => result = Some(1)
          /\ raised.type \notin FrameworkErrors \cup {"none", "SystemExit"} =>
                 result = Some(1)
          /\ raised = NoExc => result = Some(0)

\* A plugin raised while the app was built: run printed and returned 1.
C20_Witness ==
    /\ pc = "done"
    /\ raised = PluginLoadError(<<"m", ".", "boom">>, <<"kaboom">>)
    /\ result = Some(1)
    /\ ~frozen
    /\ context = None

\* The command completed: run returned 0.
C20_Completed ==
    /\ pc = "done"
    /\ last.op = "app"
    /\ raised = NoExc
    /\ result = Some(0)
    /\ frozen
    /\ context # None

\* C21: a run that ends in a framework error has printed exactly one error
\* line, in JSON mode too, and also when the error is a plugin failure.
C21_OneErrorLine ==
    (pc = "done" /\ raised.type \in FrameworkErrors) => Len(printed) = 1

\* The host spec has one of the defects _validate_spec looks for.
Malformed ==
    \/ spec.prog_name = <<>>
    \/ ~NAME_RE_match(spec.prog_name)
    \/ spec.app_display_name = ""
    \/ spec.dist_name = ""
    \/ spec.root_help = ""

LastBuiltin ==
    IF spec.env # None THEN "_register_env_group"
    ELSE IF spec.config # None THEN "_register_config_group"
    ELSE "_register_info"

\* The statement `op` of create_app is executed in this step.
Executes(op) == last' # last /\ last'.op = op

\* C23: create_app registers version, then info, then the config group iff
\* spec.config is present, then the env group iff spec.env is present, then
\* loads the plugins on an open registry; it freezes after the last plugin
\* has returned, applies after the freeze, and applies once.
C23_CreateAppSequence ==
    /\ [][/\ Executes("_register_version") =>
                 (last.op = "_validate_spec" /\ DOMAIN nodes = {})
          /\ Executes("_register_info") => last.op = "_register_version"
          /\ Executes("_register_config_group") =>
                 (last.op = "_register_info" /\ spec.config # None)
          /\ Executes("_register_env_group") =>
                 /\ spec.env # None
                 /\ last.op = IF spec.config # None THEN "_register_config_group"
                              ELSE "_register_info"
          /\ idx' # idx =>
                 /\ last'.op \in LoadOps
                 /\ ~frozen /\ ~frozen'
                 /\ idx = 0 => last.op = LastBuiltin
                 /\ idx > 0 => last.op \in LoadOps
          /\ Executes("freeze") =>
                 /\ last.op \in LoadOps \cup {LastBuiltin}
                 /\ idx = NumListed
                 /\ Len(invoked) = NumListed
                 /\ raised = NoExc
                 /\ ~frozen /\ frozen'
          /\ Executes("apply") =>
                 /\ last.op = "freeze"
                 /\ frozen /\ frozen'
                 /\ visited = <<>>
                 /\ visited' # <<>>
          /\ visited # <<>> => visited' = visited]_vars
    /\ [](pc \in {"initialize", "dispatch"} =>
             /\ frozen
             /\ visited # <<>>
             /\ Exists(<<nVersion>>) /\ Exists(<<nInfo>>)
             /\ Exists(<<nConfig>>) <=> spec.config # None
             /\ Exists(<<nEnv>>) <=> spec.env # None)

\* Both optional groups, one explicit and one entry-point plugin: the app
\* is built and applied.
C23_Witness ==
    /\ pc = "initialize"
    /\ spec.config # None
    /\ spec.env # None
    /\ Len(invoked) = 2
    /\ frozen
    /\ last.op = "apply"
    /\ Len(visited) > 4


\* C24: create_app establishes the runtime context before it registers the
\* built-in commands and before it loads plugins, so a plugin invoked while
\* create_app runs reads the context without ContextNotInitializedError:
\* at every position from the first built-in registration to apply the
\* context is established, and no plugin invocation has failed for want of it.
CreateAppPositions ==
    {"_register_version", "_register_info", "_register_config_group",
     "_register_env_group", "load_plugins", "freeze", "apply"}

C24_ContextBeforeRegistration ==
    /\ pc \in CreateAppPositions => context # None
    /\ (pc = "raised" /\ invoked # <<>> /\ invoked[Len(invoked)].callable = "ctx")
          => raised.type # "PluginLoadError"


\* The place of root node n in the materialized order.
Pos(n) == IndexOf(visited, <<n>>)

\* The root names create_app registers itself; every other root is a plugin's.
BuiltinNames == {nVersion, nInfo, nConfig, nEnv}

PluginRoots == {roots[i] : i \in 1..Len(roots)} \ BuiltinNames

\* C27: in the materialized root order of an app built by create_app,
\* version comes before info, for every host spec and every set of plugin
\* registrations, with or without explicit order values.
C27_VersionBeforeInfo ==
    visited # <<>> =>
        /\ Has(visited, <<nVersion>>) /\ Has(visited, <<nInfo>>)
        /\ Pos(nVersion) < Pos(nInfo)

C27_Witness ==
    /\ pc = "initialize" /\ spec.config # None
    /\ Exists(<<nValid>>) /\ nodes[<<nValid>>].order < 0
    /\ Pos(nValid) < Pos(nVersion) /\ Pos(nVersion) < Pos(nInfo)

C29_ApplyReadsOnly ==
    [][last'.op = "apply" =>
          /\ roots' = roots
          /\ nodes' = nodes
          /\ counter' = counter
          /\ frozen' = frozen
          /\ reserved' = reserved
          /\ visited' = apply(Reg)
          /\ apply(Reg') = visited']_vars

\* An apply on a registry whose roots were not registered in order-value
\* order, with a group among them.
C29_Witness ==
    /\ last.op = "apply" /\ pc = "api"
    /\ sorted(Reg, <<>>) # roots
    /\ \E p \in DOMAIN nodes : Len(p) = 2
    /\ Len(visited) = Cardinality(DOMAIN nodes)


\* ------------------------------------- the runtime and output modules alone
\*
\* Calls of initialize, get_context, _reset and of the output functions in
\* any order, from the state the modules are imported in.  `invoked` logs
\* the runtime calls: what each returned or raised and the _context it left;
\* `printed` collects the writes.

Msg == <<"done">>

\* The mappings handed to emit_json: the empty one, two flat ones of equal
\* content inserted in opposite orders, two nested ones likewise, and one
\* with strings holding an escape character, a quote and a character
\* outside ASCII.
JsonData ==
    {<<>>,
     <<<<"b", JInt("2")>>, <<"a", JInt("1")>>>>,
     <<<<"a", JInt("1")>>, <<"b", JInt("2")>>>>,
     <<<<"z", JDict(<<<<"b", JInt("2")>>, <<"a", JStr(<<"v">>)>>>>)>>, <<"a", JInt("1")>>>>,
     <<<<"a", JInt("1")>>, <<"z", JDict(<<<<"a", JStr(<<"v">>)>>, <<"b", JInt("2")>>>>)>>>>,
     <<<<"b", JStr(<<ESC, "[", "3", "1", "m", "\"">>)>>, <<"a", JStr(<<Emoji>>)>>>>}

InitRuntime ==
    /\ roots = NewRegistry({}).roots
    /\ nodes = NewRegistry({}).nodes
    /\ frozen = NewRegistry({}).frozen
    /\ counter = NewRegistry({}).counter
    /\ reserved = NewRegistry({}).reserved
    /\ calls = 0
    /\ last = Called("init", None, <<>>, "", None, "None", NoExc)
    /\ visited = <<>>
    /\ spec = None
    /\ argv = <<>>
    /\ pc = "runtime"
    /\ idx = 0
    /\ invoked = <<>>
    /\ printed = <<>>
    /\ raised = NoExc
    /\ context = None
    /\ FsIdle
    /\ result = None

\* One call of the runtime API with outcome out.
RuntimeCall(op, json_mode, out) ==
    /\ pc = "runtime"
    /\ calls < MaxRuntimeCalls
    /\ calls' = calls + 1
    /\ context' = out.context
    /\ invoked' = Append(invoked, [op |-> op, json_mode |-> json_mode, exc |-> out.exc,
                                   val |-> out.val, context |-> out.context])
    /\ last' = Called(op, None, <<>>, "", None, "None", out.exc)
    /\ UNCHANGED <<files, clock, roots, nodes, frozen, counter, reserved, visited,
                   spec, argv, pc, idx, printed, raised, result>>

RtInitialize ==
    \E json_mode \in BOOLEAN :
        RuntimeCall("initialize", json_mode, initialize(context, json_mode, calls + 1))

RtGetContext == RuntimeCall("get_context", FALSE, get_context(context))

RtReset == RuntimeCall("_reset", FALSE, reset(context))

\* One call of an output function that makes the writes `lines`.
OutputCall(op, payload, lines) ==
    /\ pc = "runtime"
    /\ calls < MaxRuntimeCalls
    /\ calls' = calls + 1
    /\ printed' = printed \o lines
    /\ last' = Called(op, None, <<>>, "", None, payload, NoExc)
    /\ UNCHANGED <<files, clock, roots, nodes, frozen, counter, reserved, visited,
                   spec, argv, pc, idx, invoked, raised, context, result>>

OutHuman == \E f \in Primitives : OutputCall(f, Msg, human(f, context, Msg))

OutEmitJson == \E data \in JsonData : OutputCall("emit_json", data, emit_json(data))

NextRuntime ==
    \/ RtInitialize
    \/ RtGetContext
    \/ RtReset
    \/ OutHuman
    \/ OutEmitJson

SpecRuntime == InitRuntime /\ [][NextRuntime]_vars

\* The _context before the k-th logged call.
Before(k) == IF k = 1 THEN None ELSE invoked[k - 1].context

Succeeded(k) == invoked[k].op = "initialize" /\ invoked[k].exc = NoExc

\* The successful initialize calls before the k-th call.
InitsBefore(k) == {j \in 1..(k - 1) : Succeeded(j)}

MostRecentInit(k) == CHOOSE j \in InitsBefore(k) : \A m \in InitsBefore(k) : m <= j

ResetBetween(j, k) == \E m \in (j + 1)..(k - 1) : invoked[m].op = "_reset"

\* C25: when a runtime context is established, initialize() raises
\* RuntimeError "already initialized" and leaves the established context
\* as it was, so get_context() still returns the first context; an
\* initialize() that follows a successful one succeeds only when a _reset()
\* lies between them.
C25_ReinitializeRejected ==
    pc = "runtime" =>
        \A k \in 1..Len(invoked) :
            invoked[k].op = "initialize" =>
                /\ Before(k) # None =>
                      /\ invoked[k].exc = AlreadyInitialized
                      /\ invoked[k].context = Before(k)
                      /\ get_context(invoked[k].context).val = Before(k)
                      /\ Before(k) = invoked[MostRecentInit(k)].val
                /\ (Succeeded(k) /\ InitsBefore(k) # {}) =>
                      ResetBetween(MostRecentInit(k), k)
                /\ Before(k) = None => Succeeded(k)

\* A rejected second initialize with the other mode, then a get_context
\* that returns the first context.
C25_Witness ==
    /\ pc = "runtime" /\ Len(invoked) = 3
    /\ Succeeded(1) /\ invoked[1].json_mode
    /\ invoked[2].op = "initialize" /\ ~invoked[2].json_mode
    /\ invoked[2].exc = AlreadyInitialized
    /\ invoked[3].op = "get_context" /\ invoked[3].val = invoked[1].val

\* No context is established before the k-th call: no initialize has
\* succeeded, or a _reset followed the most recent one that did.
NoneEstablished(k) ==
    InitsBefore(k) = {} \/ ResetBetween(MostRecentInit(k), k)

\* C26: get_context() raises ContextNotInitializedError exactly when no
\* context is established (before the first successful initialize() or
\* after _reset()); otherwise it returns the very object the most recent
\* successful initialize() returned, however many get_context() calls are made.
C26_GetContextReturnsEstablished ==
    pc = "runtime" =>
        \A k \in 1..Len(invoked) :
            /\ Succeeded(k) =>
                  /\ invoked[k].val # None
                  /\ invoked[k].val = invoked[k].context
                  /\ \A j \in InitsBefore(k) : invoked[j].val # invoked[k].val
            /\ invoked[k].op = "get_context" =>
                  /\ invoked[k].exc = ContextNotInitializedError <=> NoneEstablished(k)
                  /\ invoked[k].exc \in {ContextNotInitializedError, NoExc}
                  /\ ~NoneEstablished(k) =>
                        invoked[k].val = invoked[MostRecentInit(k)].val
                  /\ invoked[k].context = Before(k)

\* Two get_context calls in a row returning the object of the initialize
\* before them.
C26_Witness ==
    /\ pc = "runtime" /\ Len(invoked) = 3
    /\ Succeeded(1)
    /\ invoked[2].op = "get_context" /\ invoked[3].op = "get_context"
    /\ invoked[2].val = invoked[1].val /\ invoked[3].val = invoked[1].val

\* C30: while the runtime context has json_mode true, each of heading,
\* success, warning, error, action, detail, bullet and print_text writes
\* nothing; emit_json writes its text whatever the mode; with no context
\* established the primitives write as they do outside JSON mode.
C30_JsonModeSilencesHumanOutput ==
    [][(pc = "runtime" /\ calls' = calls + 1) =>
          /\ (last'.op \in Primitives /\ context # None /\ context[1].json_mode) =>
                printed' = printed
          /\ (last'.op \in Primitives /\ context # None /\ ~context[1].json_mode) =>
                /\ printed' = printed \o Markup(last'.op, Msg)
                /\ Len(printed') > Len(printed)
          /\ (last'.op \in Primitives /\ context = None) =>
                printed' = printed \o Markup(last'.op, Msg)
          /\ last'.op = "emit_json" =>
                /\ Len(printed') = Len(printed) + 1
                /\ printed'[Len(printed')][Len(printed'[Len(printed')])] = "\n"]_vars

\* In JSON mode an emit_json write followed by a silent heading.
C30_Witness ==
    /\ pc = "runtime" /\ context # None /\ context[1].json_mode
    /\ last.op = "heading" /\ Len(printed) = 1
    /\ printed[1][1] = "{"


\* The places in text of the keys written at nesting level 1 and 2: a key
\* stands between quotes behind a line's indentation and before ": ".
KeysAt1(text) ==
    {i \in 4..(Len(text) - 2) :
        /\ text[i - 3] = "\n" /\ text[i - 2] = "  " /\ text[i - 1] = "\""
        /\ text[i + 1] = "\"" /\ text[i + 2] = ": "}

KeysAt2(text) ==
    {i \in 5..(Len(text) - 2) :
        /\ text[i - 4] = "\n" /\ text[i - 3] = "  " /\ text[i - 2] = "  "
        /\ text[i - 1] = "\"" /\ text[i + 1] = "\"" /\ text[i + 2] = ": "}

Ascending(text, places) ==
    \A i, j \in places : i < j => KeyRank(text[i]) < KeyRank(text[j])

\* The same keys with the same values, whatever the insertion order.
SamePairs(d1, d2) ==
    /\ Len(d1) = Len(d2)
    /\ \A i \in 1..Len(d1) : \E j \in 1..Len(d2) : d1[i] = d2[j]

SameContent(d1, d2) ==
    /\ Len(d1) = Len(d2)
    /\ \A i \in 1..Len(d1) : \E j \in 1..Len(d2) :
          /\ d1[i][1] = d2[j][1]
          /\ d1[i][2].t = d2[j][2].t
          /\ d1[i][2].s = d2[j][2].s
          /\ SamePairs(d1[i][2].d, d2[j][2].d)

RECURSIVE NestedPairs(_, _)
NestedPairs(data, i) ==
    IF i > Len(data) THEN 0 ELSE Len(data[i][2].d) + NestedPairs(data, i + 1)

\* C31: emit_json is a deterministic serialization: mappings of the same
\* key/value content give the same text whatever their insertion order; the
\* keys of each mapping are written in sorted order; the items of the
\* mapping are indented by 2 spaces and those of a nested mapping by 4; a
\* character outside ASCII is written as it is; the text ends with exactly
\* one newline and holds no escape character.
C31_EmitJsonDeterministic ==
    (pc = "runtime" /\ last.op = "emit_json") =>
        LET data == last.payload
            text == printed[Len(printed)]
        IN  /\ \A d \in JsonData : SameContent(d, data) => emit_json(d) = <<text>>
            /\ Cardinality(KeysAt1(text)) = Len(data)
            /\ Ascending(text, KeysAt1(text))
            /\ Cardinality(KeysAt2(text)) = NestedPairs(data, 1)
            /\ Ascending(text, KeysAt2(text))
            /\ \A i \in 1..Len(data) : \A c \in 1..Len(data[i][2].s) :
                  data[i][2].s[c] = Emoji => Has(text, Emoji)
            /\ text[Len(text)] = "\n"
            /\ text[Len(text) - 1] # "\n"
            /\ ~Has(text, ESC)

\* A nested mapping inserted before a scalar whose key sorts first.
C31_Witness ==
    /\ pc = "runtime" /\ last.op = "emit_json"
    /\ Len(last.payload) = 2 /\ last.payload[1][1] = "z"
    /\ Cardinality(KeysAt2(printed[Len(printed)])) = 2


\* C32: a node, once created, is never removed, and its kind, name, order
\* and callback or sub-app handle never change; the only change to an
\* existing node is a group's help text going from empty to non-empty in
\* an add_group call, so a non-empty help text never changes again, and a
\* merging add_group with a different explicit order leaves the order.
C32_ExistingNodesStable ==
    [][pc = "api" =>
          \A p \in DOMAIN nodes :
              /\ p \in DOMAIN nodes'
              /\ nodes'[p].kind = nodes[p].kind
              /\ nodes'[p].name = nodes[p].name
              /\ nodes'[p].order = nodes[p].order
              /\ nodes'[p].callback = nodes[p].callback
              /\ nodes'[p].typer_app = nodes[p].typer_app
              /\ nodes'[p].help_text # nodes[p].help_text =>
                    /\ nodes[p].kind = "GROUP"
                    /\ nodes[p].help_text = ""
                    /\ last'.op = "add_group"
                    /\ p = <<last'.name>>]_vars

\* A merging add_group with explicit order 1 on a group of order 2 that
\* path resolution had created: the help text is filled in, the order stays.
C32_Witness ==
    /\ pc = "api" /\ last.op = "add_group" /\ last.exc = NoExc
    /\ last.order = Some(1) /\ calls = 2
    /\ Exists(<<nA>>) /\ nodes[<<nA>>].order = 2 /\ nodes[<<nA>>].help_text = "h1"
    /\ nodes[<<nA>>].children # <<>>

\* The step is an add_group call that finds its name as a group and neither
\* conflicts nor fills in the help text (merge case c).
MergeNoop ==
    /\ last'.op = "add_group" /\ calls' = calls + 1 /\ last'.exc = NoExc
    /\ Exists(<<last'.name>>)
    /\ nodes[<<last'.name>>].kind = "GROUP"
    /\ last'.help_text = "" \/ nodes[<<last'.name>>].help_text = last'.help_text

\* C33: an add_group call in merge case c changes nothing of the registry:
\* the tree, every node's order and help text, and the order counter, so
\* that the next auto-assigned order value is what it would have been.
C33_MergeNoopChangesNothing ==
    [][(pc = "api" /\ MergeNoop) =>
          /\ roots' = roots
          /\ nodes' = nodes
          /\ counter' = counter]_vars

\* C34: a registration call that raises leaves the node tree as it was
\* before the call: no leaf added, no help text changed, no group created
\* by path resolution left behind.
C34_RaisingCallLeavesTree ==
    [][(pc = "api" /\ last'.op \in RegOps /\ calls' = calls + 1 /\ last'.exc # NoExc) =>
          /\ roots' = roots
          /\ nodes' = nodes]_vars


\* A call refused at the second segment of its path, which is a command
\* under a group that path resolution had walked through.
C34_Witness ==
    /\ pc = "api" /\ last.op \in RegOps /\ last.group_path = Some(pAB)
    /\ last.exc.type = "RegistryConflictError" /\ last.exc.path = pAB
    /\ Exists(<<nA>>) /\ Exists(<<nA, nB>>) /\ nodes[<<nA, nB>>].kind = "COMMAND"
    /\ Cardinality(DOMAIN nodes) = 2


\* The reserved set create_app constructs the registry with.
ConstructedReserved == ALWAYS_RESERVED \cup OptionalReserved(spec)

\* C35: a privileged registration lifts a reservation for its own call
\* only: once _register_version has returned, and after each later
\* _register_* function, the reserved set is the one the registry was
\* constructed with; when the first plugin is about to be invoked, version,
\* info and every enabled optional group are reserved and are root nodes.
C35_ReservationsRestored ==
    /\ (pc \in {"_register_info", "_register_config_group", "_register_env_group",
                 "load_plugins", "loaded", "apply", "initialize", "dispatch"}) =>
            reserved = ConstructedReserved
    /\ (pc = "load_plugins" /\ idx = 0) =>
            \A n \in {nVersion, nInfo} \cup OptionalReserved(spec) :
                /\ n \in reserved
                /\ Has(roots, n)
                /\ Exists(<<n>>)

C35_Witness ==
    /\ pc = "load_plugins" /\ idx = 0 /\ spec.plugins.explicit # <<>>
    /\ spec.config # None /\ spec.env # None
    /\ reserved = {nVersion, nInfo, nConfig, nEnv}
    /\ Len(roots) = 4


\* The run ended with the command, or a plugin, raising SystemExit with a
\* code that stands for success: 0 or None.
ExitedClean ==
    /\ raised.type = "SystemExit"
    /\ raised.code \in {IntCode(0), NoneCode}

\* C36: run returns 0 iff the front end returned normally or raised
\* SystemExit with code 0 or None; a SystemExit carrying any other code, a
\* non-zero integer or a value that is no integer, gives a non-zero return
\* value; run returns 2 only after SystemExit(2).
C36_ZeroOnlyOnSuccess ==
    pc = "done" =>
        /\ result = Some(0) <=> (raised = NoExc \/ ExitedClean)
        /\ (raised.type = "SystemExit" /\ ~ExitedClean) => result # Some(0)
        /\ result = Some(2) => raised = SystemExit(IntCode(2))


\* C37: a run is independent of the runs before it: whatever context an
\* earlier run left, the context is cleared before the app is built, the
\* initialize() inside run never fails with "already initialized", and
\* after a run whose command completed get_context() returns the context
\* this run built, with json_mode true iff "--json" or "-j" is in argv.
C37_RunsIndependent ==
    /\ raised # AlreadyInitialized
    /\ pc \in (RunPositions \ {"_reset", "dispatch", "raised"}) => context = None
    /\ (pc = "done" /\ raised = NoExc) =>
          /\ get_context(context).exc = NoExc
          /\ get_context(context).val = context
          /\ context[1].born > 0
          /\ context[1].json_mode <=> ("--json" \in {argv[i] : i \in 1..Len(argv)}
                                        \/ "-j" \in {argv[i] : i \in 1..Len(argv)})

\* A completed run without a JSON flag: the context is this run's, not the
\* JSON-mode context an earlier run may have left.
C37_Witness ==
    /\ pc = "done" /\ raised = NoExc /\ result = Some(0)
    /\ context # None /\ ~context[1].json_mode /\ context[1].born > 0
    /\ spec.plugins.explicit # <<>>


\* ------------------------------------------- the config init / reset commands
\*
\* `files.config` is what the config file holds ("absent" when there is
\* none); `files.backups` is the set of <<timestamp, content>> of the backup
\* files, one file per timestamp; `spec` is the ConfigSpec.

\* The ConfigSpecs: exactly one of template_bytes and template_resource is
\* set; the resource is one the package has, or one it has not.
ConfigSpecs ==
    {[template_bytes |-> Some("template"), template_resource |-> None],
     [template_bytes |-> None, template_resource |-> Some("packaged")],
     [template_bytes |-> None, template_resource |-> Some("missing")]}

\* importlib.resources.files(pkg).joinpath(resource_name).read_bytes()
read_bytes(resource) ==
    IF resource = "packaged"
    THEN [exc |-> NoExc, val |-> "template"]
    ELSE [exc |-> PyExc("FileNotFoundError", <<resource>>), val |-> "None"]

\* _resolve_template(config_spec)
resolve_template(config_spec) ==
    IF config_spec.template_bytes # None
    THEN [exc |-> NoExc, val |-> config_spec.template_bytes[1]]
    ELSE IF config_spec.template_resource # None
         THEN read_bytes(config_spec.template_resource[1])
         ELSE [exc |-> PyExc("ValueError", <<"ConfigSpec has no template source">>),
               val |-> "None"]

\* config_path.exists()
exists(fs) == fs.config # "absent"

\* config_path.write_bytes(content)
write_bytes(fs, content) == [fs EXCEPT !.config = content]

\* shutil.copy2(config_path, config_path.with_suffix(f".{ts}.bak")): the
\* backup file of that timestamp is created, or overwritten when there is one.
copy2(fs, ts) ==
    [fs EXCEPT !.backups = {b \in @ : b[1] # ts} \cup {<<ts, fs.config>>}]

\* What a command leaves: the files, the lines written, the exception raised.
Ended(fs, lines, exc) == [files |-> fs, lines |-> lines, exc |-> exc]

\* _config_init_callback(force)
config_init(fs, force, ctx, config_spec) ==
    IF exists(fs) /\ ~force
    THEN Ended(fs,
               human("error", ctx, <<"Config file already exists: ", "config_path">>)
                   \o human("detail", ctx, <<"Use --force to overwrite.">>),
               SystemExit(IntCode(1)))
    ELSE LET t == resolve_template(config_spec)
         IN  IF t.exc # NoExc THEN Ended(fs, <<>>, t.exc)
             ELSE Ended(write_bytes(fs, t.val),
                        human("success", ctx, <<"Config file created: ", "config_path">>),
                        NoExc)

\* The part of _config_reset_callback after the confirmation.
ResetFrom(fs, lines, ctx, config_spec) ==
    LET t == resolve_template(config_spec)
    IN  IF t.exc # NoExc THEN Ended(fs, lines, t.exc)
        ELSE Ended(write_bytes(fs, t.val),
                   lines \o human("success", ctx,
                                  <<"Config reset to template: ", "config_path">>),
                   NoExc)

\* Mutant: the file is overwritten without a backup.
config_reset_no_backup(fs, yes, confirm, ts, ctx, config_spec) ==
    IF exists(fs) /\ ~yes /\ ~confirm
    THEN Ended(fs, human("action", ctx, <<"Aborted.">>), SystemExit(IntCode(0)))
    ELSE ResetFrom(fs, <<>>, ctx, config_spec)

\* _config_reset_callback(yes); `confirm` is the answer typer.confirm gets
\* when it asks, `ts` the time datetime.now() gives.
config_reset(fs, yes, confirm, ts, ctx, config_spec) ==
    IF exists(fs)
    THEN IF ~yes /\ ~confirm
         THEN Ended(fs, human("action", ctx, <<"Aborted.">>), SystemExit(IntCode(0)))
         ELSE ResetFrom(copy2(fs, ts), human("detail", ctx, <<"Backup: ", "backup">>),
                        ctx, config_spec)
    ELSE ResetFrom(fs, <<>>, ctx, config_spec)

InitConfig ==
    /\ roots = NewRegistry({}).roots
    /\ nodes = NewRegistry({}).nodes
    /\ frozen = NewRegistry({}).frozen
    /\ counter = NewRegistry({}).counter
    /\ reserved = NewRegistry({}).reserved
    /\ calls = 0
    /\ last = Called("init", None, <<>>, "", None, "None", NoExc)
    /\ visited = <<>>
    /\ spec \in ConfigSpecs
    /\ argv = <<>>
    /\ pc = "config"
    /\ idx = 0
    /\ invoked = <<>>
    /\ printed = <<>>
    /\ raised = NoExc
    /\ context = None
    /\ result = None
    /\ FsIdle

\* One step of the config scenario: a command, an edit or a tick.
ConfigStep(op, flags, fs, lines, exc, time) ==
    /\ pc = "config"
    /\ calls < MaxConfigCalls
    /\ calls' = calls + 1
    /\ files' = fs
    /\ clock' = time
    /\ printed' = printed \o lines
    /\ raised' = exc
    /\ last' = Called(op, None, <<>>, "", None, flags, exc)
    /\ UNCHANGED <<roots, nodes, frozen, counter, reserved, visited,
                   spec, argv, pc, idx, invoked, context, result>>

ConfigInit ==
    \E force \in BOOLEAN :
        LET out == config_init(files, force, context, spec)
        IN  ConfigStep("config init", [force |-> force], out.files, out.lines, out.exc,
                       clock)

ConfigReset ==
    \E yes \in BOOLEAN, confirm \in BOOLEAN :
        LET out == config_reset(files, yes, confirm, clock, context, spec)
        IN  ConfigStep("config reset", [yes |-> yes, confirm |-> confirm],
                       out.files, out.lines, out.exc, clock)

\* The user writes the config file with an editor.
EditConfig ==
    \E content \in {"mine", "modified"} :
        ConfigStep("edit", [content |-> content], write_bytes(files, content), <<>>,
                   NoExc, clock)

\* A second passes.
Tick == ConfigStep("tick", [seconds |-> 1], files, <<>>, NoExc, clock + 1)

NextConfig ==
    \/ ConfigInit
    \/ ConfigReset
    \/ EditConfig
    \/ Tick

SpecConfig == InitConfig /\ [][NextConfig]_vars

\* The content of the config file is kept in a backup file.
BackedUp(fs, content) == \E b \in fs.backups : b[2] = content

\* C38: config reset never destroys the previous configuration: when the
\* file exists and the reset proceeds (confirmed or --yes), a backup holding
\* the previous content exists afterwards, made before the file is
\* overwritten with the template (so also when the template cannot be
\* resolved and the file is left); when the confirmation is declined the
\* file is unchanged and no backup is made; config init on an existing
\* file without --force exits 1 and leaves the file unchanged.
C38_ResetKeepsPreviousConfig ==
    [][(pc = "config" /\ calls' = calls + 1 /\ exists(files)) =>
          /\ (last'.op = "config reset"
                  /\ (last'.payload.yes \/ last'.payload.confirm)) =>
                /\ BackedUp(files', files.config)
                /\ <<clock, files.config>> \in files'.backups
                /\ last'.exc = NoExc =>
                      files'.config = resolve_template(spec).val
                /\ last'.exc # NoExc => files'.config = files.config
          /\ (last'.op = "config reset"
                  /\ ~last'.payload.yes /\ ~last'.payload.confirm) =>
                /\ files' = files
                /\ last'.exc = SystemExit(IntCode(0))
          /\ (last'.op = "config init" /\ ~last'.payload.force) =>
                /\ files' = files
                /\ last'.exc = SystemExit(IntCode(1))
          /\ last'.op = "config reset" =>
                (files'.config = files.config \/ BackedUp(files', files.config))]_vars

\* A reset confirmed at the prompt: the user's content is in the backup,
\* the file holds the template.
C38_Witness ==
    /\ pc = "config" /\ last.op = "config reset" /\ last.exc = NoExc
    /\ ~last.payload.yes /\ last.payload.confirm
    /\ files.config = resolve_template(spec).val
    /\ BackedUp(files, "modified")
    /\ clock > 0

====
